---- MODULE Spec2Model ----
(***************************************************************************)
(* Model of the aggregation engine of server/services/stripeService.ts:    *)
(* the paginated collectors, the per-account bundle fetch, the             *)
(* multi-account orchestrator and the daily aggregator; of the transaction *)
(* normalizers, pagination and summary CSV of server/routes/reports and    *)
(* server/routes/export; and of the customer IP extraction                 *)
(* and the query filters of client/src/services/stripeSigmaService.js.     *)
(*                                                                         *)
(* An async function runs synchronously up to its next await, so a step of *)
(* the model is "an upstream call settles and the awaiting code runs up to *)
(* its next upstream call (or to its return)".                             *)
(***************************************************************************)
EXTENDS Integers, Sequences, FiniteSets, TLC

VARIABLES
    col,        \* collector name -> state of its current invocation
    mode,       \* which entry point is being exercised
    bstate,     \* per-account bundle fetch (getComprehensive/getCompliance)
    mstate,     \* getMultiAccountTransactions
    failures,   \* list calls the store-backed upstream has failed
    gstate,     \* a call of groupTransactionsByDate and its arguments
    nstate,     \* a record handed to a route's normalizer and its row
    rstate,     \* a request in a route handler of routes/reports, export
    qstate      \* a query handed to applyQueryFilters and its result

vars == <<col, mode, bstate, mstate, failures, gstate, nstate, rstate, qstate>>

----------------------------------------------------------------------------
(* Bounds of the model *)

NumRecords  == 2    \* distinct records a mock upstream can put in a page
MaxPageLen  == 2    \* records in one mock page (the upstream's cap is 100)
MaxCalls    == 3    \* pagination calls after which the mock upstream ends
MaxAccounts == 3    \* connected accounts in one request
MaxDay      == 2    \* calendar days 1..MaxDay
TicksPerDay == 2    \* Unix-time ticks in one calendar day
MaxFailures == 1    \* list calls the store-backed upstream fails in a run

(* Program constants *)

PageLimit == 100    \* limit: 100 in every pagination call
TestLimit == 5      \* limit: 5 in the "ANY charges" diagnostic call

Null == <<>>        \* JS null / undefined (ids are non-empty tuples)

----------------------------------------------------------------------------
(* Helpers on sequences *)

Last(s) == s[Len(s)]

RECURSIVE Flatten(_)
Flatten(ss) == IF ss = <<>> THEN <<>> ELSE Head(ss) \o Flatten(Tail(ss))

SeqsUpTo(S, n) == UNION { [1..k -> S] : k \in 0..n }

----------------------------------------------------------------------------
(* The nine collectors and the list endpoint each one calls *)

Collectors ==
    { "getCharges", "getRefunds", "getChargebacks", "getDeclines",
      "getPaymentIntents", "getBalanceTransactions", "getEvents",
      "getDetailedRefunds", "getDetailedDisputes" }

EndpointOf(fn) ==
    CASE fn = "getCharges"             -> "charges"
      [] fn = "getDeclines"            -> "charges"
      [] fn = "getRefunds"             -> "refunds"
      [] fn = "getDetailedRefunds"     -> "refunds"
      [] fn = "getChargebacks"         -> "disputes"
      [] fn = "getDetailedDisputes"    -> "disputes"
      [] fn = "getPaymentIntents"      -> "paymentIntents"
      [] fn = "getBalanceTransactions" -> "balanceTransactions"
      [] fn = "getEvents"              -> "events"

\* getCharges and getPaymentIntents end with a diagnostic list call
\* (limit 5, no date filter) when they collected nothing.
HasDiagnostic(fn) == fn \in { "getCharges", "getPaymentIntents" }

\* event.type, split at its first dot
EventTypes ==
    << <<"charge", "succeeded">>, <<"customer", "created">>,
       <<"payment_intent", "created">>, <<"account", "updated">>,
       <<"refund", "created">>, <<"balance", "available">>,
       <<"dispute", "created">> >>

StartsWith(type, prefix) == type[1] = prefix

PaymentRelated(event) ==
    \/ StartsWith(event.type, "charge")
    \/ StartsWith(event.type, "payment_intent")
    \/ StartsWith(event.type, "refund")
    \/ StartsWith(event.type, "dispute")
    \/ StartsWith(event.type, "balance")

\* Mutant: getDeclines keeps the failed charges of a page only.
Kept_FailedDeclines(fn, data) ==
    LET Failed(r) == "status" \in DOMAIN r /\ r.status = "failed"
    IN  IF fn = "getEvents" THEN SelectSeq(data, PaymentRelated)
        ELSE IF fn = "getDeclines" THEN SelectSeq(data, Failed)
        ELSE data

\* What a collector keeps of a page: getEvents keeps the payment-related
\* events, every other collector keeps the page as it is.
Kept(fn, data) ==
    IF fn = "getEvents" THEN SelectSeq(data, PaymentRelated) ELSE data

----------------------------------------------------------------------------
(* Upstream responses *)

Failure == [ok |-> FALSE, data |-> <<>>, has_more |-> FALSE]

Page(data, more) == [ok |-> TRUE, data |-> data, has_more |-> more]

\* i-th record of an endpoint as a mock upstream returns it
MockRecord(ep, i) ==
    [id      |-> <<ep, i>>,
     created |-> i,
     amount  |-> 100 * i + 45,
     type    |-> IF ep = "events"
                 THEN EventTypes[((i - 1) % Len(EventTypes)) + 1]
                 ELSE <<ep>>]

MockRecords(ep) == { MockRecord(ep, i) : i \in 1..NumRecords }

NoRepeat(s) == \A i, j \in DOMAIN s : s[i] = s[j] => i = j

\* A mock upstream answers a list call with any page (no record twice in
\* one page) or with a failure.
MockPages(ep) ==
    { Page(d, m) : d \in { q \in SeqsUpTo(MockRecords(ep), MaxPageLen) :
                              NoRepeat(q) },
                   m \in BOOLEAN }

----------------------------------------------------------------------------
(* One collector invocation (getCharges .. getDetailedDisputes)            *)
(*   pc     "idle" | "await" (a pagination call is in flight) |            *)
(*          "awaitTest" (the diagnostic call is in flight) | "done" |      *)
(*          "thrown"                                                       *)
(*   calls  every list call issued, in order (instrumentation)             *)
(*   pages  the responses to the pagination calls, in order                *)
(*          (instrumentation)                                              *)

IdleCollector ==
    [pc |-> "idle", acct |-> 0, gte |-> 0, lte |-> 0,
     hasMore |-> FALSE, startingAfter |-> Null,
     out |-> <<>>, calls |-> <<>>, pages |-> <<>>]

ListParams(c, ep) ==
    [api |-> ep, stripeAccount |-> c.acct, limit |-> PageLimit,
     created |-> TRUE, gte |-> c.gte, lte |-> c.lte,
     starting_after |-> c.startingAfter]

TestParams(c, ep) ==
    [api |-> ep, stripeAccount |-> c.acct, limit |-> TestLimit,
     created |-> FALSE, gte |-> 0, lte |-> 0,
     starting_after |-> Null]

\* Mutant: the diagnostic call is made whatever was collected.
CollectorContinue_AlwaysTest(fn, c) ==
    IF c.hasMore
    THEN [c EXCEPT !.pc = "await",
                   !.calls = Append(@, ListParams(c, EndpointOf(fn)))]
    ELSE [c EXCEPT !.pc = "awaitTest",
                   !.calls = Append(@, TestParams(c, EndpointOf(fn)))]

\* Top of the while loop and what follows it, up to the next await.
CollectorContinue(fn, c) ==
    IF c.hasMore
    THEN [c EXCEPT !.pc = "await",
                   !.calls = Append(@, ListParams(c, EndpointOf(fn)))]
    ELSE IF HasDiagnostic(fn) /\ Len(c.out) = 0
         THEN [c EXCEPT !.pc = "awaitTest",
                        !.calls = Append(@, TestParams(c, EndpointOf(fn)))]
         ELSE [c EXCEPT !.pc = "done"]

CollectorStart(fn, acct, gte, lte) ==
    CollectorContinue(fn,
        [IdleCollector EXCEPT !.acct = acct, !.gte = gte, !.lte = lte,
                              !.hasMore = TRUE])

\* Mutant: a page replaces what was collected instead of extending it.
CollectorResume_Overwrite(fn, c, resp) ==
    IF c.pc = "awaitTest"
    THEN [c EXCEPT !.pc = "done"]
    ELSE IF resp.ok
         THEN CollectorContinue(fn,
                [c EXCEPT !.out = Kept(fn, resp.data),
                          !.hasMore = resp.has_more,
                          !.startingAfter =
                              IF resp.data = <<>> THEN Null
                              ELSE Last(resp.data).id,
                          !.pages = Append(@, resp)])
         ELSE CollectorContinue(fn,
                [c EXCEPT !.hasMore = FALSE,
                          !.pages = Append(@, resp)])

\* Mutant: the catch block logs the error and leaves hasMore as it was.
CollectorResume_Retry(fn, c, resp) ==
    IF c.pc = "awaitTest"
    THEN [c EXCEPT !.pc = "done"]
    ELSE IF resp.ok
         THEN CollectorContinue(fn,
                [c EXCEPT !.out = @ \o Kept(fn, resp.data),
                          !.hasMore = resp.has_more,
                          !.startingAfter =
                              IF resp.data = <<>> THEN Null
                              ELSE Last(resp.data).id,
                          !.pages = Append(@, resp)])
         ELSE CollectorContinue(fn,
                [c EXCEPT !.pages = Append(@, resp)])

\* Mutant: the catch block rethrows the error of a failed list call.
CollectorResume_Rethrow(fn, c, resp) ==
    IF c.pc = "awaitTest"
    THEN [c EXCEPT !.pc = "done"]
    ELSE IF resp.ok
         THEN CollectorContinue(fn,
                [c EXCEPT !.out = @ \o Kept(fn, resp.data),
                          !.hasMore = resp.has_more,
                          !.startingAfter =
                              IF resp.data = <<>> THEN Null
                              ELSE Last(resp.data).id,
                          !.pages = Append(@, resp)])
         ELSE [c EXCEPT !.pc = "thrown", !.pages = Append(@, resp)]

\* The awaited list call settles with resp.
CollectorResume(fn, c, resp) ==
    IF c.pc = "awaitTest"
    THEN [c EXCEPT !.pc = "done"]
    ELSE IF resp.ok
         THEN CollectorContinue(fn,
                [c EXCEPT !.out = @ \o Kept(fn, resp.data),
                          !.hasMore = resp.has_more,
                          !.startingAfter =
                              IF resp.data = <<>> THEN Null
                              ELSE Last(resp.data).id,
                          !.pages = Append(@, resp)])
         ELSE CollectorContinue(fn,
                [c EXCEPT !.hasMore = FALSE,
                          !.pages = Append(@, resp)])

Awaiting(c) == c.pc \in {"await", "awaitTest"}

\* Number of pagination calls issued so far
LoopCalls(c) == Cardinality({ i \in DOMAIN c.calls : c.calls[i].created })

----------------------------------------------------------------------------
(* Time: a Unix timestamp counts ticks, a timezone is its offset in ticks  *)

Days      == 1..MaxDay
Timezones == {0, 1}

\* moment.tz(date, timezone).unix(): the first instant of the local day
DateToUnix(date, tz) == date * TicksPerDay - tz

\* Mutant: the date is taken in UTC, whatever the timezone.
UnixToDate_Utc(ts, tz) == ts \div TicksPerDay

\* moment.unix(ts).tz(timezone).format('YYYY-MM-DD')
UnixToDate(ts, tz) == (ts + tz) \div TicksPerDay

AccountIds == 1..MaxAccounts

----------------------------------------------------------------------------
(* Specification Spec: one collector against a mock upstream *)

IdleBundle ==
    [pc |-> "idle", fn |-> "", acct |-> 0,
     startDate |-> 0, endDate |-> 0, tz |-> 0, result |-> <<>>]

IdleMulti ==
    [pc |-> "idle", accountIds |-> <<>>, i |-> 0,
     startDate |-> 0, endDate |-> 0, tz |-> 0, stage |-> "",
     allTransactions |-> <<>>, accountInfos |-> <<>>,
     result |-> [transactions |-> <<>>, accounts |-> <<>>],
     outcomes |-> <<>>]

IdleGroup ==
    [pc |-> "idle", startDate |-> 0, endDate |-> 0, tz |-> 0, accountId |-> 0,
     charges |-> <<>>, refunds |-> <<>>, chargebacks |-> <<>>,
     declines |-> <<>>, result |-> <<>>]

IdleNormalize ==
    [pc |-> "idle", fn |-> "", accountId |-> 0, record |-> Null, row |-> Null]

IdleRoute ==
    [pc |-> "idle", route |-> "", user |-> Null, query |-> Null,
     startDate |-> Null, endDate |-> Null, timezone |-> 0,
     accountIds |-> <<>>, i |-> 0, page |-> 0, limit |-> 0,
     called |-> <<>>, rows |-> <<>>, fetched |-> {}, response |-> Null]

IdleQuery == [pc |-> "idle", query |-> Null, data |-> <<>>, result |-> Null]

Init ==
    /\ col = [fn \in Collectors |-> IdleCollector]
    /\ mode = "idle"
    /\ bstate = IdleBundle
    /\ mstate = IdleMulti
    /\ failures = 0
    /\ gstate = IdleGroup
    /\ nstate = IdleNormalize
    /\ rstate = IdleRoute
    /\ qstate = IdleQuery

Collect(fn, acct, startTimestamp, endTimestamp) ==
    /\ mode = "idle"
    /\ mode' = "collector"
    /\ col' = [col EXCEPT ![fn] =
                 CollectorStart(fn, acct, startTimestamp, endTimestamp)]
    /\ UNCHANGED <<bstate, mstate, failures, gstate, nstate, rstate, qstate>>

ListReturns(fn, resp) ==
    /\ mode = "collector"
    /\ Awaiting(col[fn])
    \* the MaxCalls-th pagination call is answered with a last page
    /\ (col[fn].pc = "await" /\ resp.has_more) => LoopCalls(col[fn]) < MaxCalls
    /\ col' = [col EXCEPT ![fn] = CollectorResume(fn, col[fn], resp)]
    /\ UNCHANGED <<mode, bstate, mstate, failures, gstate, nstate, rstate, qstate>>

ListFails(fn) ==
    /\ mode = "collector"
    /\ Awaiting(col[fn])
    /\ col' = [col EXCEPT ![fn] = CollectorResume(fn, col[fn], Failure)]
    /\ UNCHANGED <<mode, bstate, mstate, failures, gstate, nstate, rstate, qstate>>

Next ==
    \/ \E fn \in Collectors :
            Collect(fn, MaxAccounts, DateToUnix(1, 0), DateToUnix(MaxDay, 0))
    \/ \E fn \in Collectors :
         \E resp \in MockPages(EndpointOf(fn)) : ListReturns(fn, resp)
    \/ \E fn \in Collectors : ListFails(fn)

Spec == Init /\ [][Next]_vars

----------------------------------------------------------------------------
(* A store-backed upstream: each connected account holds a fixed set of    *)
(* records per endpoint, listed newest first; a list call returns the      *)
(* records of the window after the cursor, at most a page of them.         *)

UpstreamPageCap == 1    \* records the store-backed upstream puts in a page

Min(a, b) == IF a <= b THEN a ELSE b

\* tick-th instant of a calendar day (UTC)
Instant(day, tick) == day * TicksPerDay + tick

StoreRecord(ep, acct, i, created, type) ==
    [id |-> <<ep, acct, i>>, created |-> created,
     amount |-> 1000 * acct + 100 * i + 45, type |-> type]

Store(acct, ep) ==
    CASE ep = "charges" ->
           << StoreRecord(ep, acct, 2, Instant(2, 0), <<ep>>),
              StoreRecord(ep, acct, 1, Instant(1, 1), <<ep>>) >>
      [] ep = "refunds" ->
           << StoreRecord(ep, acct, 1, Instant(1, 1), <<ep>>) >>
      [] ep = "disputes" -> << >>
      [] ep = "paymentIntents" ->
           << StoreRecord(ep, acct, 1, Instant(1, 0), <<ep>>) >>
      [] ep = "balanceTransactions" ->
           << StoreRecord(ep, acct, 1, Instant(2, 0), <<ep>>) >>
      [] ep = "events" ->
           << StoreRecord(ep, acct, 2, Instant(1, 1), EventTypes[2]),
              StoreRecord(ep, acct, 1, Instant(1, 0), EventTypes[1]) >>

\* The records of a store that a list call with these parameters selects
StoreWindow(acct, ep, created, gte, lte) ==
    LET InWindow(r) == ~created \/ (gte <= r.created /\ r.created <= lte)
    IN  SelectSeq(Store(acct, ep), InWindow)

RECURSIVE DropThrough(_, _)
DropThrough(recs, id) ==
    IF recs = <<>> THEN <<>>
    ELSE IF Head(recs).id = id THEN Tail(recs)
    ELSE DropThrough(Tail(recs), id)

StoreList(params) ==
    LET inWindow == StoreWindow(params.stripeAccount, params.api,
                                params.created, params.gte, params.lte)
        rest == IF params.starting_after = Null THEN inWindow
                ELSE DropThrough(inWindow, params.starting_after)
        cap  == Min(params.limit, UpstreamPageCap)
    IN  Page(SubSeq(rest, 1, Min(cap, Len(rest))), Len(rest) > cap)

----------------------------------------------------------------------------
(* groupTransactionsByDate.  A JS number is held in fixed point, Scale     *)
(* units to one: 123.45 is 1234500.                                        *)

Scale == 10000

Num(n) == n * Scale

\* x / 100
Div100(x) == x \div 100

\* Math.round(x * 100) / 100
Round2(x) == ((x + 50) \div 100) * 100

ZeroBucket(date, accountId) ==
    [date |-> date,
     charges_count |-> 0, charges_amount |-> 0,
     refunds_count |-> 0, refunds_amount |-> 0,
     chargebacks_count |-> 0, chargebacks_amount |-> 0,
     declines_count |-> 0, aprvl_pct |-> Num(100),
     totals_count |-> 0, totals_amount |-> 0,
     account_id |-> accountId]

AddCharge(day, charge) ==
    [day EXCEPT !.charges_count = @ + 1,
                !.charges_amount = @ + Div100(Num(charge.amount)),
                !.totals_count = @ + 1,
                !.totals_amount = @ + Div100(Num(charge.amount))]

\* Mutant: a refund adds to the net total.
AddRefund_Adds(day, refund) ==
    [day EXCEPT !.refunds_count = @ + 1,
                !.refunds_amount = @ + Div100(Num(refund.amount)),
                !.totals_count = @ + 1,
                !.totals_amount = @ + Div100(Num(refund.amount))]

AddRefund(day, refund) ==
    [day EXCEPT !.refunds_count = @ + 1,
                !.refunds_amount = @ + Div100(Num(refund.amount)),
                !.totals_count = @ + 1,
                !.totals_amount = @ - Div100(Num(refund.amount))]

AddChargeback(day, chargeback) ==
    [day EXCEPT !.chargebacks_count = @ + 1,
                !.chargebacks_amount = @ + Div100(Num(chargeback.amount)),
                !.totals_count = @ + 1,
                !.totals_amount = @ - Div100(Num(chargeback.amount))]

\* Mutant: a decline is left out of the total count, as it is left out of
\* the total amount.
AddDecline_NotInTotals(day, decline) ==
    [day EXCEPT !.declines_count = @ + 1]

AddDecline(day, decline) ==
    [day EXCEPT !.declines_count = @ + 1,
                !.totals_count = @ + 1]

AddRecord(kind, day, r) ==
    CASE kind = "charges"     -> AddCharge(day, r)
      [] kind = "refunds"     -> AddRefund(day, r)
      [] kind = "chargebacks" -> AddChargeback(day, r)
      [] kind = "declines"    -> AddDecline(day, r)

\* records.forEach(r => { if (dailyData[dateStr]) ... })
RECURSIVE Process(_, _, _, _)
Process(kind, dailyData, records, tz) ==
    IF records = <<>> THEN dailyData
    ELSE LET r == Head(records)
             dateStr == UnixToDate(r.created, tz)
         IN  Process(kind,
                     IF dateStr \in DOMAIN dailyData
                     THEN [dailyData EXCEPT ![dateStr] = AddRecord(kind, @, r)]
                     ELSE dailyData,
                     Tail(records), tz)

\* Mutant: the approval rate is taken over every counted record.
FinishDay_OverTotals(day) ==
    [day EXCEPT !.charges_amount = Round2(@),
                !.refunds_amount = Round2(@),
                !.chargebacks_amount = Round2(@),
                !.totals_amount = Round2(@),
                !.aprvl_pct =
                    IF day.totals_count > 0
                    THEN Round2((day.charges_count * Num(100))
                                    \div day.totals_count)
                    ELSE Num(100)]

FinishDay(day) ==
    LET totalAttempts == day.charges_count + day.declines_count IN
    [day EXCEPT !.charges_amount = Round2(@),
                !.refunds_amount = Round2(@),
                !.chargebacks_amount = Round2(@),
                !.totals_amount = Round2(@),
                !.aprvl_pct =
                    IF totalAttempts > 0
                    THEN Round2((day.charges_count * Num(100)) \div totalAttempts)
                    ELSE Num(100)]

\* Mutant: the initialisation loop stops before endDate (isBefore).
groupTransactionsByDate_ExclusiveEnd(charges, refunds, chargebacks, declines, startDate, endDate, tz, accountId) ==
    LET init == [d \in startDate..(endDate - 1) |-> ZeroBucket(d, accountId)]
        d1 == Process("charges", init, charges, tz)
        d2 == Process("refunds", d1, refunds, tz)
        d3 == Process("chargebacks", d2, chargebacks, tz)
        d4 == Process("declines", d3, declines, tz)
    IN  [i \in 1..(endDate - startDate) |-> FinishDay(d4[startDate + i - 1])]

groupTransactionsByDate(charges, refunds, chargebacks, declines, startDate, endDate, tz, accountId) ==
    LET init == [d \in startDate..endDate |-> ZeroBucket(d, accountId)]
        d1 == Process("charges", init, charges, tz)
        d2 == Process("refunds", d1, refunds, tz)
        d3 == Process("chargebacks", d2, chargebacks, tz)
        d4 == Process("declines", d3, declines, tz)
    IN  [i \in 1..(endDate - startDate + 1) |-> FinishDay(d4[startDate + i - 1])]

----------------------------------------------------------------------------
(* Specification SpecGroup: groupTransactionsByDate applied to arbitrary   *)
(* lists of charges, refunds, chargebacks and declines.  The lists are     *)
(* built one record at a time, newest first as the list endpoints return   *)
(* them; a record is created at the last tick of a day, so that under the  *)
(* timezone offset 1 its local date is the next day.                       *)

MaxSupplied == 4    \* records handed to one groupTransactionsByDate call

GroupKinds == { "charges", "refunds", "chargebacks", "declines" }

SuppliedInstants == { Instant(d, TicksPerDay - 1) : d \in Days }

\* amount (minor units) of a supplied record of each kind
SuppliedAmount(kind) ==
    CASE kind = "charges"     -> 12345
      [] kind = "refunds"     -> 2345
      [] kind = "chargebacks" -> 1005
      [] kind = "declines"    -> 5000

Supplied(kind, n, created) ==
    [id |-> <<kind, n>>, created |-> created, amount |-> SuppliedAmount(kind)]

GroupCall(startDate, endDate, tz) ==
    /\ mode = "idle"
    /\ mode' = "group"
    /\ gstate' = [IdleGroup EXCEPT !.pc = "input", !.startDate = startDate,
                     !.endDate = endDate, !.tz = tz,
                     !.accountId = MaxAccounts]
    /\ UNCHANGED <<col, bstate, mstate, failures, nstate, rstate, qstate>>

Supply(kind, created) ==
    /\ mode = "group"
    /\ gstate.pc = "input"
    /\ Len(gstate.charges) + Len(gstate.refunds)
         + Len(gstate.chargebacks) + Len(gstate.declines) < MaxSupplied
    /\ IF gstate[kind] = <<>> THEN TRUE
       ELSE created <= Last(gstate[kind]).created
    /\ gstate' = [gstate EXCEPT ![kind] =
                     Append(@, Supplied(kind, Len(@) + 1, created))]
    /\ UNCHANGED <<col, mode, bstate, mstate, failures, nstate, rstate, qstate>>

GroupReturns ==
    /\ mode = "group"
    /\ gstate.pc = "input"
    /\ gstate' = [gstate EXCEPT !.pc = "returned",
                     !.result = groupTransactionsByDate(gstate.charges,
                         gstate.refunds, gstate.chargebacks, gstate.declines,
                         gstate.startDate, gstate.endDate, gstate.tz,
                         gstate.accountId)]
    /\ UNCHANGED <<col, mode, bstate, mstate, failures, nstate, rstate, qstate>>

NextGroup ==
    \/ \E s \in Days, e \in Days, tz \in Timezones :
            s <= e /\ GroupCall(s, e, tz)
    \/ \E kind \in GroupKinds, created \in SuppliedInstants :
            Supply(kind, created)
    \/ GroupReturns

SpecGroup == Init /\ [][NextGroup]_vars

----------------------------------------------------------------------------
(* Specification SpecBundle: getComprehensiveTransactions and              *)
(* getComplianceTransactions against the store-backed upstream, whose list *)
(* calls may fail.  Promise.all starts every collector at once; their      *)
(* calls settle in any order.                                              *)

BundleFetches == { "getComprehensiveTransactions", "getComplianceTransactions" }

BundleCollectors(bfn) ==
    IF bfn = "getComprehensiveTransactions"
    THEN Collectors
    ELSE { "getCharges", "getPaymentIntents", "getBalanceTransactions",
           "getEvents", "getDetailedRefunds", "getDetailedDisputes" }

\* The value the bundle fetch returns once every collector has returned
BundleResult(b, cs) ==
    IF b.fn = "getComprehensiveTransactions"
    THEN [transactions |->
              groupTransactionsByDate(cs["getCharges"].out, cs["getRefunds"].out,
                  cs["getChargebacks"].out, cs["getDeclines"].out,
                  b.startDate, b.endDate, b.tz, b.acct),
          paymentIntents      |-> cs["getPaymentIntents"].out,
          balanceTransactions |-> cs["getBalanceTransactions"].out,
          events              |-> cs["getEvents"].out,
          detailedRefunds     |-> cs["getDetailedRefunds"].out,
          detailedDisputes    |-> cs["getDetailedDisputes"].out]
    ELSE [charges             |-> cs["getCharges"].out,
          paymentIntents      |-> cs["getPaymentIntents"].out,
          balanceTransactions |-> cs["getBalanceTransactions"].out,
          events              |-> cs["getEvents"].out,
          refunds             |-> cs["getDetailedRefunds"].out,
          disputes            |-> cs["getDetailedDisputes"].out]

FetchBundle(bfn, acct, startDate, endDate, tz) ==
    /\ mode = "idle"
    /\ mode' = "bundle"
    /\ bstate' = [IdleBundle EXCEPT !.pc = "running", !.fn = bfn,
                     !.acct = acct, !.startDate = startDate,
                     !.endDate = endDate, !.tz = tz]
    /\ col' = [fn \in Collectors |->
                 IF fn \in BundleCollectors(bfn)
                 THEN CollectorStart(fn, acct, DateToUnix(startDate, tz),
                                     DateToUnix(endDate, tz))
                 ELSE IdleCollector]
    /\ UNCHANGED <<mstate, failures, gstate, nstate, rstate, qstate>>

\* Mutant: getCharges is awaited before the other collectors' calls are
\* handled, as getTransactions awaits it.
BundleListReturns_AfterCharges(fn) ==
    /\ fn = "getCharges" \/ col["getCharges"].pc = "done"
    /\ mode = "bundle"
    /\ bstate.pc = "running"
    /\ Awaiting(col[fn])
    /\ col' = [col EXCEPT ![fn] =
                 CollectorResume(fn, col[fn], StoreList(Last(col[fn].calls)))]
    /\ UNCHANGED <<mode, bstate, mstate, failures, gstate, nstate, rstate, qstate>>

BundleListReturns(fn) ==
    /\ mode = "bundle"
    /\ bstate.pc = "running"
    /\ Awaiting(col[fn])
    /\ col' = [col EXCEPT ![fn] =
                 CollectorResume(fn, col[fn], StoreList(Last(col[fn].calls)))]
    /\ UNCHANGED <<mode, bstate, mstate, failures, gstate, nstate, rstate, qstate>>

BundleListFails(fn) ==
    /\ mode = "bundle"
    /\ bstate.pc = "running"
    /\ Awaiting(col[fn])
    /\ failures < MaxFailures
    /\ failures' = failures + 1
    /\ col' = [col EXCEPT ![fn] = CollectorResume(fn, col[fn], Failure)]
    /\ UNCHANGED <<mode, bstate, mstate, gstate, nstate, rstate, qstate>>

\* Promise.all settles: it rejects when a collector throws (the catch block
\* rethrows), and resolves when every collector has returned.
BundleSettles ==
    /\ mode = "bundle"
    /\ bstate.pc = "running"
    /\ LET cs == BundleCollectors(bstate.fn)
           rejected == \E fn \in cs : col[fn].pc = "thrown"
       IN  /\ rejected \/ \A fn \in cs : col[fn].pc = "done"
           /\ bstate' = IF rejected
                        THEN [bstate EXCEPT !.pc = "thrown"]
                        ELSE [bstate EXCEPT !.pc = "returned",
                                  !.result = BundleResult(bstate, col)]
    /\ UNCHANGED <<mode, col, mstate, failures, gstate, nstate, rstate, qstate>>

NextBundle ==
    \/ \E bfn \in BundleFetches, s \in Days, e \in Days, tz \in Timezones :
            s <= e /\ FetchBundle(bfn, MaxAccounts, s, e, tz)
    \/ \E fn \in Collectors : BundleListReturns(fn)
    \/ \E fn \in Collectors : BundleListFails(fn)
    \/ BundleSettles

SpecBundle == Init /\ [][NextBundle]_vars

\* Specification SpecBundleStall: the bundle fetches over the whole range
\* of the store, where the list call of one collector may never settle.
\* The upstream answers every call of the other collectors, and the event
\* loop runs the continuation of every settled call and of Promise.all.
Stalled == "getCharges"

NextBundleStall ==
    \/ \E bfn \in BundleFetches, tz \in Timezones :
            FetchBundle(bfn, MaxAccounts, 1, MaxDay, tz)
    \/ \E fn \in Collectors : BundleListReturns(fn)
    \/ \E fn \in Collectors : BundleListFails(fn)
    \/ BundleSettles

SpecBundleStall ==
    /\ Init /\ [][NextBundleStall]_vars
    /\ WF_vars(\E fn \in Collectors \ {Stalled} : BundleListReturns(fn))

----------------------------------------------------------------------------
(* Specification SpecMulti: getMultiAccountTransactions against the        *)
(* store-backed upstream.  accounts.retrieve and the list calls may fail,  *)
(* and getTransactions may throw (its catch block rethrows).               *)
(*   mstate.pc  "idle" | "retrieve" (accounts.retrieve in flight) |        *)
(*              "collect" (a list call of collector mstate.stage in        *)
(*              flight) | "group" (the collectors of getTransactions have  *)
(*              returned) | "returned" | "thrown"                          *)
(*   mstate.outcomes  per account processed: whether its processing threw  *)
(*              and the rows getTransactions returned (instrumentation)    *)

\* x || d for a string x
OrElse(x, d) == IF x = "" THEN d ELSE x

\* The account object accounts.retrieve resolves to
UpstreamAccount(acct) ==
    [id |-> acct, business_type |-> "", country |-> "",
     charges_enabled |-> FALSE, payouts_enabled |-> FALSE,
     email |-> "", type |-> ""]

AccountInfo(account) ==
    [id |-> account.id,
     business_type |-> OrElse(account.business_type, "individual"),
     country |-> OrElse(account.country, "US"),
     charges_enabled |-> account.charges_enabled \/ FALSE,
     payouts_enabled |-> account.payouts_enabled \/ FALSE,
     email |-> OrElse(account.email, ""),
     type |-> OrElse(account.type, "express")]

\* new Date(dateStr).getTime(): the UTC midnight of the date
DateTime(date) == date * TicksPerDay

\* Mutant: the comparator orders ascending.
CompareRows_Ascending(a, b) == DateTime(a.date) - DateTime(b.date)

\* (a, b) => new Date(b.date).getTime() - new Date(a.date).getTime()
CompareRows(a, b) == DateTime(b.date) - DateTime(a.date)

\* Array.prototype.sort is stable: a row goes after the rows the
\* comparator puts before it and after the earlier rows it ties with
SortRows(rows) ==
    LET place == [j \in DOMAIN rows |->
                    Cardinality({ i \in DOMAIN rows :
                        \/ CompareRows(rows[i], rows[j]) < 0
                        \/ CompareRows(rows[i], rows[j]) = 0 /\ i <= j })]
    IN  [k \in DOMAIN rows |->
            rows[CHOOSE j \in DOMAIN rows : place[j] = k]]

\* Mutant: every row is tagged with the first account of the list.
TagRows_First(rows, m) ==
    [j \in DOMAIN rows |-> [rows[j] EXCEPT !.account_id = m.accountIds[1]]]

\* accountTransactions.map(tx => ({ ...tx, account_id: accountId }))
TagRows(rows, m) ==
    [j \in DOMAIN rows |-> [rows[j] EXCEPT !.account_id = m.accountIds[m.i]]]

\* The collectors getTransactions awaits, in order
Stages == << "getCharges", "getRefunds", "getChargebacks", "getDeclines" >>

StageIndex(fn) == CHOOSE k \in DOMAIN Stages : Stages[k] = fn

\* Mutant: the loop steps over every second account of the list.
NextAccount_SkipsOne(m) ==
    IF m.i + 1 < Len(m.accountIds)
    THEN [m EXCEPT !.i = @ + 2, !.pc = "retrieve", !.stage = ""]
    ELSE [m EXCEPT !.pc = "returned", !.stage = "",
                   !.allTransactions = SortRows(m.allTransactions),
                   !.result = [transactions |-> SortRows(m.allTransactions),
                               accounts |-> m.accountInfos]]

\* The for loop moves on: the next account's accounts.retrieve is issued,
\* or, after the last account, the rows are sorted and returned.
NextAccount(m) ==
    IF m.i < Len(m.accountIds)
    THEN [m EXCEPT !.i = @ + 1, !.pc = "retrieve", !.stage = ""]
    ELSE [m EXCEPT !.pc = "returned", !.stage = "",
                   !.allTransactions = SortRows(m.allTransactions),
                   !.result = [transactions |-> SortRows(m.allTransactions),
                               accounts |-> m.accountInfos]]

Outcome(m, threw, rows) ==
    [m EXCEPT !.outcomes =
        Append(@, [account |-> m.accountIds[m.i], threw |-> threw,
                   rows |-> rows])]

\* Mutant: the per-account catch block rethrows.
AccountFailed_Rethrow(m) == [Outcome(m, TRUE, <<>>) EXCEPT !.pc = "thrown"]

\* catch (error) { console.error(...); /* Continue with other accounts */ }
AccountFailed(m) == NextAccount(Outcome(m, TRUE, <<>>))

GetMulti(n, startDate, endDate, tz) ==
    /\ mode = "idle"
    /\ mode' = "multi"
    /\ mstate' = NextAccount([IdleMulti EXCEPT
                     !.accountIds = [k \in 1..n |-> k],
                     !.startDate = startDate, !.endDate = endDate,
                     !.tz = tz])
    /\ UNCHANGED <<col, bstate, failures, gstate, nstate, rstate, qstate>>

\* accounts.retrieve resolves: the account info is pushed and
\* getTransactions starts its first collector.
RetrieveReturns ==
    /\ mode = "multi"
    /\ mstate.pc = "retrieve"
    /\ LET accountId == mstate.accountIds[mstate.i] IN
       /\ mstate' = [mstate EXCEPT
              !.accountInfos = Append(@, AccountInfo(UpstreamAccount(accountId))),
              !.pc = "collect", !.stage = Stages[1]]
       /\ col' = [col EXCEPT ![Stages[1]] =
              CollectorStart(Stages[1], accountId,
                             DateToUnix(mstate.startDate, mstate.tz),
                             DateToUnix(mstate.endDate, mstate.tz))]
    /\ UNCHANGED <<mode, bstate, failures, gstate, nstate, rstate, qstate>>

RetrieveFails ==
    /\ mode = "multi"
    /\ mstate.pc = "retrieve"
    /\ mstate' = AccountFailed(mstate)
    /\ UNCHANGED <<mode, col, bstate, failures, gstate, nstate, rstate, qstate>>

\* A list call of the running collector settles; when the collector returns
\* getTransactions starts the next one.
MultiSettle(resp) ==
    LET fn == mstate.stage
        c  == CollectorResume(fn, col[fn], resp)
        k  == StageIndex(fn)
    IN  IF c.pc = "done" /\ k < Len(Stages)
        THEN /\ col' = [col EXCEPT ![fn] = c,
                  ![Stages[k + 1]] =
                      CollectorStart(Stages[k + 1], c.acct, c.gte, c.lte)]
             /\ mstate' = [mstate EXCEPT !.stage = Stages[k + 1]]
        ELSE /\ col' = [col EXCEPT ![fn] = c]
             /\ mstate' = [mstate EXCEPT !.pc =
                   IF c.pc = "done" THEN "group"
                   ELSE IF c.pc = "thrown" THEN "failed" ELSE @]

MultiListReturns ==
    /\ mode = "multi"
    /\ mstate.pc = "collect"
    /\ MultiSettle(StoreList(Last(col[mstate.stage].calls)))
    /\ UNCHANGED <<mode, bstate, failures, gstate, nstate, rstate, qstate>>

MultiListFails ==
    /\ mode = "multi"
    /\ mstate.pc = "collect"
    /\ failures < MaxFailures
    /\ failures' = failures + 1
    /\ MultiSettle(Failure)
    /\ UNCHANGED <<mode, bstate, gstate, nstate, rstate, qstate>>

\* getTransactions groups what it collected and returns; the rows are
\* tagged and pushed.  source is instrumentation: the account the list
\* calls behind the row acted on.
GetTransactionsReturns ==
    /\ mode = "multi"
    /\ mstate.pc = "group"
    /\ LET fetchedFor == col["getCharges"].calls[1].stripeAccount
           rows == groupTransactionsByDate(col["getCharges"].out,
                       col["getRefunds"].out, col["getChargebacks"].out,
                       col["getDeclines"].out, mstate.startDate,
                       mstate.endDate, mstate.tz, fetchedFor)
           tagged == TagRows(rows, mstate)
           pushed == [j \in DOMAIN tagged |->
                        [f \in DOMAIN tagged[j] \cup {"source"} |->
                            IF f = "source" THEN fetchedFor ELSE tagged[j][f]]]
       IN  mstate' = NextAccount(
               [Outcome(mstate, FALSE, rows) EXCEPT
                   !.allTransactions = @ \o pushed])
    /\ col' = [fn \in Collectors |-> IdleCollector]
    /\ UNCHANGED <<mode, bstate, failures, gstate, nstate, rstate, qstate>>

\* getTransactions throws "Failed to fetch transactions: ..."; the
\* per-account catch block takes over.
GetTransactionsThrows ==
    /\ mode = "multi"
    /\ mstate.pc \in {"group", "failed"}
    /\ mstate' = AccountFailed(mstate)
    /\ col' = [fn \in Collectors |-> IdleCollector]
    /\ UNCHANGED <<mode, bstate, failures, gstate, nstate, rstate, qstate>>

NextMulti ==
    \/ \E n \in 1..MaxAccounts, s \in Days, e \in Days, tz \in Timezones :
            s <= e /\ GetMulti(n, s, e, tz)
    \/ RetrieveReturns
    \/ RetrieveFails
    \/ MultiListReturns
    \/ MultiListFails
    \/ GetTransactionsReturns
    \/ GetTransactionsThrows

SpecMulti == Init /\ [][NextMulti]_vars

----------------------------------------------------------------------------
(* The transaction normalizers of the routes.  An upstream record holds a  *)
(* field only when the JS object has a value for it; a field it lacks      *)
(* reads as undefined.  Text whose syntax the code inspects (the IP        *)
(* candidates of the metadata) is a sequence of characters, '' is <<>>.    *)

EmptyObject == <<>>    \* {}: an object without fields

\* r.f || d, for a string field
StrOr(r, f, d) == IF f \in DOMAIN r THEN OrElse(r[f], d) ELSE d

\* r?.f, for an object field: undefined has no fields to read either
Sub(r, f) == IF f \in DOMAIN r THEN r[f] ELSE EmptyObject

\* r?.f || d, for a text field
TextOr(r, f, d) == IF f \in DOMAIN r /\ r[f] # <<>> THEN r[f] ELSE d

\* moment.unix(ts).format('YYYY-MM-DD HH:mm:ss'): date and time of day
FormatCreated(ts) == << ts \div TicksPerDay, ts % TicksPerDay >>

\* r?.f ? moment.unix(r.f).format('YYYY-MM-DD HH:mm:ss') : ''
FormatOr(r, f) == IF f \in DOMAIN r /\ r[f] # 0 THEN FormatCreated(r[f]) ELSE <<>>

NotAvailable == << "N", "/", "A" >>    \* 'N/A'

\* GET /detailed/:accountIds, complianceData.charges.map(...)
DetailedCharge(accountId, charge) ==
    [account_id |-> accountId,
     transaction_type |-> "charge",
     id |-> charge.id,
     amount |-> Div100(Num(charge.amount)),
     currency |-> charge.currency,
     status |-> charge.status,
     created |-> FormatCreated(charge.created),
     paid |-> charge.paid,
     captured |-> charge.captured,
     disputed |-> charge.disputed,
     failure_code |-> StrOr(charge, "failure_code", ""),
     failure_message |-> StrOr(charge, "failure_message", ""),
     network_status |-> StrOr(Sub(charge, "outcome"), "network_status", ""),
     outcome_type |-> StrOr(Sub(charge, "outcome"), "type", ""),
     risk_level |-> StrOr(Sub(charge, "outcome"), "risk_level", ""),
     outcome_reason |-> StrOr(Sub(charge, "outcome"), "reason", ""),
     seller_message |-> StrOr(Sub(charge, "outcome"), "seller_message", ""),
     description |-> StrOr(charge, "description", ""),
     customer_id |-> StrOr(charge, "customer", ""),
     payment_method_id |-> StrOr(charge, "payment_method", ""),
     receipt_email |-> StrOr(charge, "receipt_email", ""),
     statement_descriptor |-> StrOr(charge, "statement_descriptor", ""),
     authorization_code |-> StrOr(charge, "authorization_code", ""),
     balance_transaction_id |-> StrOr(charge, "balance_transaction", ""),
     fraud_details |-> Sub(charge, "fraud_details"),
     metadata |-> Sub(charge, "metadata"),
     customer_name |-> StrOr(Sub(charge, "billing_details"), "name", ""),
     customer_email |-> StrOr(Sub(charge, "billing_details"), "email", ""),
     customer_phone |-> StrOr(Sub(charge, "billing_details"), "phone", ""),
     chargeback_status |-> IF charge.disputed THEN "disputed" ELSE "none",
     chargeback_reason |-> StrOr(Sub(charge, "dispute"), "reason", ""),
     chargeback_amount |->
         IF "amount" \in DOMAIN Sub(charge, "dispute")
                /\ charge.dispute.amount # 0
         THEN Div100(Num(charge.dispute.amount)) ELSE 0,
     chargeback_currency |-> StrOr(Sub(charge, "dispute"), "currency", ""),
     chargeback_created |-> FormatOr(Sub(charge, "dispute"), "created"),
     chargeback_evidence_due_by |->
         FormatOr(Sub(Sub(charge, "dispute"), "evidence_details"), "due_by"),
     chargeback_status_details |-> StrOr(Sub(charge, "dispute"), "status", ""),
     customer_ip |->
         LET own == Sub(charge, "metadata")
             pi  == Sub(Sub(charge, "payment_intent"), "metadata")
         IN  TextOr(own, "customer_ip",
             TextOr(own, "ip_address",
             TextOr(own, "client_ip",
             TextOr(pi, "customer_ip",
             TextOr(pi, "ip_address",
             TextOr(pi, "client_ip", <<>>)))))),
     request_ip |-> TextOr(Sub(charge, "metadata"), "request_ip", <<>>),
     webhook_ip |-> TextOr(Sub(charge, "metadata"), "webhook_ip", <<>>)]

\* GET /detailed/:accountIds, complianceData.paymentIntents.map(...)
DetailedPaymentIntent(accountId, pi) ==
    [account_id |-> accountId,
     transaction_type |-> "payment_intent",
     id |-> pi.id,
     amount |-> Div100(Num(pi.amount)),
     currency |-> pi.currency,
     status |-> pi.status,
     created |-> FormatCreated(pi.created),
     paid |-> pi.status = "succeeded",
     captured |-> pi.status = "succeeded",
     disputed |-> FALSE,
     failure_code |-> StrOr(Sub(pi, "last_payment_error"), "code", ""),
     failure_message |-> StrOr(Sub(pi, "last_payment_error"), "message", ""),
     network_status |-> "",
     outcome_type |-> StrOr(Sub(pi, "last_payment_error"), "type", ""),
     risk_level |-> "",
     outcome_reason |->
         StrOr(Sub(pi, "last_payment_error"), "decline_code", ""),
     seller_message |-> StrOr(Sub(pi, "last_payment_error"), "message", ""),
     description |-> StrOr(pi, "description", ""),
     customer_id |-> StrOr(pi, "customer", ""),
     payment_method_id |-> "",
     receipt_email |-> StrOr(pi, "receipt_email", ""),
     statement_descriptor |-> StrOr(pi, "statement_descriptor", ""),
     authorization_code |-> "",
     balance_transaction_id |-> "",
     fraud_details |-> EmptyObject,
     metadata |-> Sub(pi, "metadata"),
     customer_name |-> "",
     customer_email |-> StrOr(pi, "receipt_email", ""),
     customer_phone |-> "",
     chargeback_status |-> "none",
     chargeback_reason |-> "",
     chargeback_amount |-> 0,
     chargeback_currency |-> "",
     chargeback_created |-> <<>>,
     chargeback_evidence_due_by |-> <<>>,
     chargeback_status_details |-> "",
     customer_ip |->
         LET own == Sub(pi, "metadata")
         IN  TextOr(own, "customer_ip",
             TextOr(own, "ip_address",
             TextOr(own, "client_ip",
             TextOr(own, "request_ip", <<>>)))),
     request_ip |-> TextOr(Sub(pi, "metadata"), "request_ip", <<>>),
     webhook_ip |-> TextOr(Sub(pi, "metadata"), "webhook_ip", <<>>)]

\* POST /detailed/csv/:accountIds (and the xls, pdf, email and sheets
\* exports), complianceData.charges.map(...)
ExportCharge(accountId, charge) ==
    [account_id |-> accountId,
     transaction_type |-> "charge",
     id |-> charge.id,
     amount |-> Div100(Num(charge.amount)),
     currency |-> charge.currency,
     status |-> charge.status,
     created |-> FormatCreated(charge.created),
     paid |-> charge.paid,
     captured |-> charge.captured,
     disputed |-> charge.disputed,
     failure_code |-> StrOr(charge, "failure_code", ""),
     failure_message |-> StrOr(charge, "failure_message", ""),
     network_status |-> StrOr(Sub(charge, "outcome"), "network_status", ""),
     outcome_type |-> StrOr(Sub(charge, "outcome"), "type", ""),
     risk_level |-> StrOr(Sub(charge, "outcome"), "risk_level", ""),
     seller_message |-> StrOr(Sub(charge, "outcome"), "seller_message", ""),
     customer_ip |->
         TextOr(Sub(charge, "metadata"), "customer_ip", NotAvailable),
     description |-> StrOr(charge, "description", ""),
     receipt_email |-> StrOr(charge, "receipt_email", ""),
     receipt_url |-> StrOr(charge, "receipt_url", "")]

\* POST /detailed/csv/:accountIds, complianceData.paymentIntents.map(...)
ExportPaymentIntent(accountId, pi) ==
    LET outcome == Sub(Sub(pi, "last_payment_error"), "outcome") IN
    [account_id |-> accountId,
     transaction_type |-> "payment_intent",
     id |-> pi.id,
     amount |-> Div100(Num(pi.amount)),
     currency |-> pi.currency,
     status |-> pi.status,
     created |-> FormatCreated(pi.created),
     paid |-> pi.status = "succeeded",
     captured |-> pi.capture_method = "automatic",
     disputed |-> FALSE,
     failure_code |-> StrOr(Sub(pi, "last_payment_error"), "code", ""),
     failure_message |-> StrOr(Sub(pi, "last_payment_error"), "message", ""),
     network_status |-> StrOr(outcome, "network_status", ""),
     outcome_type |-> StrOr(outcome, "type", ""),
     risk_level |-> StrOr(outcome, "risk_level", ""),
     seller_message |-> StrOr(outcome, "seller_message", ""),
     customer_ip |-> TextOr(Sub(pi, "metadata"), "customer_ip", NotAvailable),
     description |-> StrOr(pi, "description", ""),
     receipt_email |-> StrOr(pi, "receipt_email", ""),
     receipt_url |-> StrOr(pi, "receipt_url", "")]

----------------------------------------------------------------------------
(* extractCustomerIP and isValidIP of the client's stripeSigmaService *)

DecimalDigits == << "0", "1", "2", "3", "4", "5", "6", "7", "8", "9" >>

HexLetters == { "a", "b", "c", "d", "e", "f", "A", "B", "C", "D", "E", "F" }

IsDigit(c) == \E k \in DOMAIN DecimalDigits : DecimalDigits[k] = c

DigitValue(c) == (CHOOSE k \in DOMAIN DecimalDigits : DecimalDigits[k] = c) - 1

RECURSIVE DecimalValue(_)
DecimalValue(part) ==
    IF part = <<>> THEN 0
    ELSE 10 * DecimalValue(SubSeq(part, 1, Len(part) - 1))
           + DigitValue(Last(part))

\* The parts of text between the occurrences of sep
RECURSIVE Split(_, _)
Split(text, sep) ==
    IF \A k \in DOMAIN text : text[k] # sep THEN << text >>
    ELSE LET k == CHOOSE j \in DOMAIN text :
                     text[j] = sep /\ \A h \in 1..(j - 1) : text[h] # sep
         IN  << SubSeq(text, 1, k - 1) >>
                \o Split(SubSeq(text, k + 1, Len(text)), sep)

\* 25[0-5]|2[0-4][0-9]|[01]?[0-9][0-9]?
IsOctet(part) ==
    /\ Len(part) \in 1..3
    /\ \A k \in DOMAIN part : IsDigit(part[k])
    /\ DecimalValue(part) <= 255

\* [0-9a-fA-F]{1,4}
IsHexGroup(part) ==
    /\ Len(part) \in 1..4
    /\ \A k \in DOMAIN part : IsDigit(part[k]) \/ part[k] \in HexLetters

\* ipRegex.test(ip) || ipv6Regex.test(ip)
isValidIP(ip) ==
    \/ LET parts == Split(ip, ".")
       IN  Len(parts) = 4 /\ \A k \in DOMAIN parts : IsOctet(parts[k])
    \/ LET parts == Split(ip, ":")
       IN  Len(parts) = 8 /\ \A k \in DOMAIN parts : IsHexGroup(parts[k])

\* String.prototype.trim
RECURSIVE Trim(_)
Trim(text) ==
    IF text = <<>> THEN text
    ELSE IF Head(text) = " " THEN Trim(Tail(text))
    ELSE IF Last(text) = " " THEN Trim(SubSeq(text, 1, Len(text) - 1))
    ELSE text

ipFields == << "customer_ip", "ip_address", "client_ip", "source_ip",
               "user_ip", "visitor_ip", "remote_ip", "client_ip_address",
               "ip", "user_agent_ip" >>

\* for (const field of ipFields) if (metadata[field] && isValidIP(...))
FirstValid(metadata) ==
    LET hits == { k \in DOMAIN ipFields :
                    /\ ipFields[k] \in DOMAIN metadata
                    /\ metadata[ipFields[k]] # <<>>
                    /\ isValidIP(metadata[ipFields[k]]) }
    IN  IF hits = {} THEN <<>>
        ELSE Trim(metadata[ipFields[CHOOSE k \in hits :
                                        \A h \in hits : k <= h]])

\* an expanded reference is an object, an unexpanded one is an id string
IsObject(r, f) == f \in DOMAIN r /\ r[f].expanded

extractCustomerIP(charge) ==
    LET own == FirstValid(Sub(charge, "metadata"))
        pi  == IF IsObject(charge, "payment_intent")
               THEN FirstValid(Sub(charge.payment_intent, "metadata"))
               ELSE <<>>
        src == IF IsObject(charge, "source")
               THEN FirstValid(Sub(charge.source, "metadata"))
               ELSE <<>>
    IN  IF own # <<>> THEN own
        ELSE IF pi # <<>> THEN pi
        ELSE src

----------------------------------------------------------------------------
(* Specification SpecNormalize: each normalizer applied to one upstream    *)
(* record.  The records range over the optional fields present or          *)
(* missing, the statuses, and metadata holding valid and invalid IP        *)
(* candidates on the record, its payment intent and its source.            *)

\* "203.0.113.5", "198.51.100.7", "192.0.2.9"
OwnIp == << "2", "0", "3", ".", "0", ".", "1", "1", "3", ".", "5" >>
NestedIp == << "1", "9", "8", ".", "5", "1", ".", "1", "0", "0", ".", "7" >>
SourceIp == << "1", "9", "2", ".", "0", ".", "2", ".", "9" >>

\* "2001:db8:0:0:0:0:0:1"
OwnIp6 == << "2", "0", "0", "1", ":", "d", "b", "8", ":", "0", ":", "0", ":", "0", ":", "0", ":", "0", ":", "1" >>

\* "not-an-ip"
NotAnIp == << "n", "o", "t", "-", "a", "n", "-", "i", "p" >>

Absent == [absent |-> TRUE]    \* marks a field the record does not hold

WithField(r, f, v) == [g \in DOMAIN r \cup {f} |-> IF g = f THEN v ELSE r[g]]

Optional(r, f, v) == IF v = Absent THEN r ELSE WithField(r, f, v)

Merge(a, b) ==
    [g \in DOMAIN a \cup DOMAIN b |-> IF g \in DOMAIN b THEN b[g] ELSE a[g]]

MetadataValues == { OwnIp, OwnIp6, NotAnIp, <<>> }

\* metadata of a record: missing, empty, one candidate key, or an invalid
\* customer_ip beside a second key
Metadatas ==
    { Absent, EmptyObject }
    \cup { [k \in {key} |-> v] :
             key \in { "customer_ip", "client_ip", "source_ip", "request_ip" },
             v \in MetadataValues }
    \cup { [customer_ip |-> NotAnIp, ip_address |-> v] :
             v \in { OwnIp, NotAnIp } }

\* charge.payment_intent: missing, an id, or an expanded payment intent
NestedPaymentIntents ==
    { Absent, [expanded |-> FALSE] }
    \cup { [expanded |-> TRUE, metadata |-> md] :
             md \in { EmptyObject, [client_ip |-> NestedIp],
                      [client_ip |-> NotAnIp], [source_ip |-> NestedIp] } }

\* charge.source: missing, or a source object
NestedSources ==
    { Absent, [expanded |-> TRUE, metadata |-> [customer_ip |-> SourceIp]] }

OptionalChargeFields ==
    [failure_code |-> "card_declined",
     failure_message |-> "Your card was declined.",
     outcome |-> [network_status |-> "declined_by_network",
                  type |-> "issuer_declined", risk_level |-> "normal",
                  reason |-> "generic_decline",
                  seller_message |-> "The bank declined the payment."],
     description |-> "order", customer |-> "cus_1",
     payment_method |-> "pm_1", receipt_email |-> "a@example.com",
     receipt_url |-> "https://pay.example.com/r",
     statement_descriptor |-> "SHOP", authorization_code |-> "A1",
     balance_transaction |-> "txn_1",
     fraud_details |-> [stripe_report |-> "fraudulent"],
     billing_details |-> [name |-> "N", email |-> "b@example.com",
                          phone |-> "555"],
     dispute |-> [reason |-> "fraudulent", amount |-> 12345,
                  currency |-> "usd", created |-> Instant(MaxDay, 0),
                  evidence_details |-> [due_by |-> Instant(MaxDay, 1)],
                  status |-> "needs_response"]]

\* A charge as charges.list returns it
UpstreamCharge(succeeded, full, md, pi, src) ==
    LET required == [id |-> << "charges", MaxAccounts, 1 >>, amount |-> 12345,
                     currency |-> "usd",
                     status |-> IF succeeded THEN "succeeded" ELSE "failed",
                     created |-> Instant(1, 1), paid |-> succeeded,
                     captured |-> succeeded, disputed |-> full]
        fields == IF full THEN Merge(required, OptionalChargeFields)
                  ELSE required
    IN  Optional(Optional(Optional(fields, "metadata", md),
                          "payment_intent", pi), "source", src)

UpstreamCharges ==
    { UpstreamCharge(succeeded, full, md, pi, src) :
        succeeded \in BOOLEAN, full \in BOOLEAN, md \in Metadatas,
        pi \in NestedPaymentIntents, src \in NestedSources }

OptionalPaymentIntentFields ==
    [description |-> "order", customer |-> "cus_1",
     receipt_email |-> "a@example.com",
     receipt_url |-> "https://pay.example.com/r",
     statement_descriptor |-> "SHOP"]

LastPaymentErrors ==
    { Absent,
      [code |-> "card_declined", message |-> "Your card was declined.",
       type |-> "card_error", decline_code |-> "generic_decline"] }

\* A payment intent as paymentIntents.list returns it
UpstreamPaymentIntent(status, capture, full, md, lpe) ==
    LET required == [id |-> << "paymentIntents", MaxAccounts, 1 >>,
                     amount |-> 12345, currency |-> "usd", status |-> status,
                     created |-> Instant(1, 0), capture_method |-> capture]
        fields == IF full THEN Merge(required, OptionalPaymentIntentFields)
                  ELSE required
    IN  Optional(Optional(fields, "metadata", md), "last_payment_error", lpe)

UpstreamPaymentIntents ==
    { UpstreamPaymentIntent(status, capture, full, md, lpe) :
        status \in { "succeeded", "requires_payment_method" },
        capture \in { "automatic", "manual" }, full \in BOOLEAN,
        md \in Metadatas, lpe \in LastPaymentErrors }

Normalizers ==
    { "DetailedCharge", "DetailedPaymentIntent", "ExportCharge",
      "ExportPaymentIntent", "extractCustomerIP" }

ChargeNormalizers == { "DetailedCharge", "ExportCharge" }

PaymentIntentNormalizers == { "DetailedPaymentIntent", "ExportPaymentIntent" }

Normalized(fn, accountId, record) ==
    [IdleNormalize EXCEPT !.pc = "returned", !.fn = fn,
                          !.accountId = accountId, !.record = record]

NormalizeCharge(fn, charge) ==
    /\ mode = "idle"
    /\ mode' = "normalize"
    /\ nstate' = [Normalized(fn, MaxAccounts, charge) EXCEPT !.row =
                     IF fn = "DetailedCharge"
                     THEN DetailedCharge(MaxAccounts, charge)
                     ELSE ExportCharge(MaxAccounts, charge)]
    /\ UNCHANGED <<col, bstate, mstate, failures, gstate, rstate, qstate>>

NormalizePaymentIntent(fn, pi) ==
    /\ mode = "idle"
    /\ mode' = "normalize"
    /\ nstate' = [Normalized(fn, MaxAccounts, pi) EXCEPT !.row =
                     IF fn = "DetailedPaymentIntent"
                     THEN DetailedPaymentIntent(MaxAccounts, pi)
                     ELSE ExportPaymentIntent(MaxAccounts, pi)]
    /\ UNCHANGED <<col, bstate, mstate, failures, gstate, rstate, qstate>>

\* the Sigma charges query: customer_ip: this.extractCustomerIP(charge)
SigmaCharge(charge) ==
    /\ mode = "idle"
    /\ mode' = "normalize"
    /\ nstate' = [Normalized("extractCustomerIP", MaxAccounts, charge)
                     EXCEPT !.row = [customer_ip |-> extractCustomerIP(charge)]]
    /\ UNCHANGED <<col, bstate, mstate, failures, gstate, rstate, qstate>>

NextNormalize ==
    \/ \E fn \in ChargeNormalizers, charge \in UpstreamCharges :
            NormalizeCharge(fn, charge)
    \/ \E fn \in PaymentIntentNormalizers, pi \in UpstreamPaymentIntents :
            NormalizePaymentIntent(fn, pi)
    \/ \E charge \in UpstreamCharges : SigmaCharge(charge)

SpecNormalize == Init /\ [][NextNormalize]_vars

----------------------------------------------------------------------------
(* Specification SpecRoute: the route handlers that fetch every requested  *)
(* account and then paginate or export the combined list.                  *)
(*   GET /detailed/:accountIds       routes/reports                        *)
(*   GET /multi/:accountIds          routes/reports                        *)
(*   POST /csv/:accountIds           routes/export                         *)
(*   POST /detailed/csv/:accountIds  routes/export                         *)
(* The service call a handler awaits resolves with the records of the      *)
(* store-backed upstream, or throws.                                       *)
(* A request names its accounts in the path, a comma-separated text; the   *)
(* account whose id is the decimal text k is account k of the store, and   *)
(* the empty id text is account 0.  A query or body value is a record:     *)
(* Missing when it was not sent, else a date text that moment() parses to  *)
(* a day, or one it cannot parse.                                          *)
(*   rstate.pc       "idle" | "await" (a service call in flight) |         *)
(*                   "responded"                                           *)
(*   rstate.query    the request as it was received (instrumentation)      *)
(*   rstate.called   the accounts a service call was issued for, in order  *)
(*                   (instrumentation)                                     *)
(*   rstate.rows     allDetailedData / transactions                        *)
(*   rstate.fetched  the accounts whose service call resolved              *)
(*                   (instrumentation)                                     *)

MaxPage  == 3    \* page numbers 1..MaxPage
MaxLimit == 2    \* page sizes 1..MaxLimit

DetailedRoutes == { "GET /detailed", "POST /detailed/csv" }

SummaryRoutes == { "GET /multi", "POST /csv" }

PagedRoutes == { "GET /detailed", "GET /multi" }

\* What getComplianceTransactions resolves to for an account: the charges
\* and payment intents of the store
ComplianceData(acct) ==
    [charges |->
         [k \in DOMAIN Store(acct, "charges") |->
             Merge([currency |-> "usd", status |-> "succeeded",
                    paid |-> TRUE, captured |-> TRUE, disputed |-> FALSE],
                   Store(acct, "charges")[k])],
     paymentIntents |->
         [k \in DOMAIN Store(acct, "paymentIntents") |->
             Merge([currency |-> "usd", status |-> "succeeded",
                    capture_method |-> "automatic"],
                   Store(acct, "paymentIntents")[k])]]

\* [...detailedCharges, ...detailedPaymentIntents] of one account
AccountRows(route, accountId, complianceData) ==
    IF route = "GET /detailed"
    THEN [k \in DOMAIN complianceData.charges |->
             DetailedCharge(accountId, complianceData.charges[k])]
         \o [k \in DOMAIN complianceData.paymentIntents |->
             DetailedPaymentIntent(accountId, complianceData.paymentIntents[k])]
    ELSE [k \in DOMAIN complianceData.charges |->
             ExportCharge(accountId, complianceData.charges[k])]
         \o [k \in DOMAIN complianceData.paymentIntents |->
             ExportPaymentIntent(accountId, complianceData.paymentIntents[k])]

\* new Date(created).getTime(), the inverse of the formatting
ParseCreated(created) == created[1] * TicksPerDay + created[2]

\* (a, b) => new Date(b.created).getTime() - new Date(a.created).getTime()
CompareDetailed(a, b) == ParseCreated(b.created) - ParseCreated(a.created)

\* allDetailedData.sort(...), a stable sort
RECURSIVE SortDetailed(_)
SortDetailed(rows) ==
    IF rows = <<>> THEN <<>>
    ELSE LET sorted == SortDetailed(SubSeq(rows, 1, Len(rows) - 1))
             x == Last(rows)
             k == Cardinality({ j \in DOMAIN sorted :
                                  CompareDetailed(sorted[j], x) <= 0 })
         IN  SubSeq(sorted, 1, k) \o <<x>> \o SubSeq(sorted, k + 1, Len(sorted))

\* What getMultiAccountTransactions resolves to when the accounts of
\* survivors are fetched and the others are skipped
MultiTransactions(accountIds, survivors, startDate, endDate, tz) ==
    LET Out(fn, acct) ==
            Kept(fn, StoreWindow(acct, EndpointOf(fn), TRUE,
                                 DateToUnix(startDate, tz),
                                 DateToUnix(endDate, tz)))
        Buckets(acct) ==
            groupTransactionsByDate(Out("getCharges", acct),
                Out("getRefunds", acct), Out("getChargebacks", acct),
                Out("getDeclines", acct), startDate, endDate, tz, acct)
    IN  SortRows(Flatten([k \in DOMAIN accountIds |->
            IF accountIds[k] \in survivors
            THEN TagRows(Buckets(accountIds[k]),
                         [accountIds |-> accountIds, i |-> k])
            ELSE <<>>]))

\* array.slice(startIndex, endIndex)
Slice(rows, startIndex, endIndex) ==
    IF startIndex >= Len(rows) THEN <<>>
    ELSE SubSeq(rows, startIndex + 1, Min(endIndex, Len(rows)))

\* Math.ceil(a / b)
CeilDiv(a, b) == (a + b - 1) \div b

\* Mutant: the first page starts at index limitNum.
Paginate_FromPageOne(rows, pageNum, limitNum) ==
    LET startIndex == pageNum * limitNum
        endIndex == startIndex + limitNum
    IN  [data |-> Slice(rows, startIndex, endIndex),
         pagination |->
             [currentPage |-> pageNum, itemsPerPage |-> limitNum,
              totalItems |-> Len(rows),
              totalPages |-> CeilDiv(Len(rows), limitNum),
              hasPrevPage |-> pageNum > 1,
              hasNextPage |-> pageNum < CeilDiv(Len(rows), limitNum)]]

\* the slice and the pagination object of the response
Paginate(rows, pageNum, limitNum) ==
    LET startIndex == (pageNum - 1) * limitNum
        endIndex == startIndex + limitNum
    IN  [data |-> Slice(rows, startIndex, endIndex),
         pagination |->
             [currentPage |-> pageNum, itemsPerPage |-> limitNum,
              totalItems |-> Len(rows),
              totalPages |-> CeilDiv(Len(rows), limitNum),
              hasPrevPage |-> pageNum > 1,
              hasNextPage |-> pageNum < CeilDiv(Len(rows), limitNum)]]

\* x.toFixed(2): the decimal text of x, which reads as a whole number of
\* hundredths (no amount of the store falls on a tie)
ToFixed2(x) ==
    [hundredths |-> IF x >= 0 THEN (x + 50) \div 100
                    ELSE 0 - ((50 - x) \div 100)]

\* a row of the summary CSV: transactions.map(tx => [...])
SummaryCsvRow(tx) ==
    [account_id |-> tx.account_id,
     date |-> tx.date,
     charges_count |-> tx.charges_count,
     charges_amount |-> ToFixed2(Div100(tx.charges_amount)),
     refunds_count |-> tx.refunds_count,
     refunds_amount |-> ToFixed2(Div100(tx.refunds_amount)),
     chargebacks_count |-> tx.chargebacks_count,
     chargebacks_amount |-> ToFixed2(Div100(tx.chargebacks_amount)),
     declines_count |-> tx.declines_count,
     aprvl_pct |-> IF tx.aprvl_pct # 0 THEN ToFixed2(tx.aprvl_pct)
                   ELSE NotAvailable,
     totals_count |-> tx.totals_count,
     totals_amount |-> ToFixed2(Div100(tx.totals_amount))]

\* undefined: the value was not sent
Missing == [given |-> FALSE]

\* a text moment() cannot parse
Unparseable == [given |-> TRUE, valid |-> FALSE]

\* the text 'YYYY-MM-DD' of a day
DateText(day) == [given |-> TRUE, valid |-> TRUE, day |-> day]

\* moment(): the request arrives on the last day
Today == DateText(MaxDay)

\* moment().subtract(n, 'days').format('YYYY-MM-DD')
SubtractDays(date, n) == DateText(date.day - n)

\* !value
Falsy(value) == ~value.given

\* moment(value).isValid()
IsValid(value) == value.valid

\* moment(a).isAfter(moment(b))
IsAfter(a, b) == a.day > b.day

BadRequest == [status |-> 400]

\* the switch over period: the date range, or the 400 answer
PeriodRange(period, start_date, end_date) ==
    CASE period = "daily" ->
           [startDate |-> SubtractDays(Today, 1), endDate |-> Today]
      [] period = "weekly" ->
           [startDate |-> SubtractDays(Today, 7), endDate |-> Today]
      [] period = "monthly" ->
           [startDate |-> SubtractDays(Today, 30), endDate |-> Today]
      [] period = "custom" ->
           IF Falsy(start_date) \/ Falsy(end_date) THEN BadRequest
           ELSE [startDate |-> start_date, endDate |-> end_date]
      [] OTHER -> BadRequest

\* the id text of account k, and the account an id text names
AccountText(k) == << DecimalDigits[k + 1] >>

AccountNamed(text) == DecimalValue(text)

\* accountIds.split(',').map(id => id.trim())
ParseAccountIds(accountIds) ==
    LET parts == Split(accountIds, ",")
    IN  [k \in DOMAIN parts |-> AccountNamed(Trim(parts[k]))]

\* if (!req.user.isMaster) accountIdList = [req.user.stripeId], in the
\* routes that hold the statement
EnforceAccess(route, user, accountIdList) ==
    IF route \in { "GET /multi", "GET /detailed" } /\ ~user.isMaster
    THEN << user.stripeId >>
    ELSE accountIdList

\* the 400 answers for an invalid date format and for start after end
CheckDates(range) ==
    IF ~IsValid(range.startDate) \/ ~IsValid(range.endDate) THEN BadRequest
    ELSE IF IsAfter(range.startDate, range.endDate) THEN BadRequest
    ELSE range

\* The handler up to its first service call: the 400 answer, or the date
\* range, timezone and account list it goes on with
Validate(route, user, accountIds, q) ==
    IF route = "POST /detailed/csv"
    THEN IF Falsy(q.start_date) \/ Falsy(q.end_date) \/ Falsy(q.timezone)
         THEN BadRequest
         ELSE [status |-> 0, startDate |-> q.start_date,
               endDate |-> q.end_date, timezone |-> q.timezone.tz,
               accountIdList |-> ParseAccountIds(accountIds)]
    ELSE LET range == PeriodRange(q.period, q.start_date, q.end_date)
             checked == IF range = BadRequest THEN range
                        ELSE CheckDates(range)
             accountIdList ==
                 EnforceAccess(route, user, ParseAccountIds(accountIds))
         IN  IF checked = BadRequest THEN BadRequest
             ELSE IF Len(accountIdList) = 0 THEN BadRequest
             ELSE [status |-> 0, startDate |-> checked.startDate,
                   endDate |-> checked.endDate,
                   timezone |-> IF q.timezone.given THEN q.timezone.tz ELSE 0,
                   accountIdList |-> accountIdList]

Respond(r, rows, response) ==
    [r EXCEPT !.pc = "responded", !.rows = rows, !.response = response]

\* After the loop over the accounts: sort, paginate and res.json, or build
\* the CSV and res.send
DetailedDone(r) ==
    IF r.route = "GET /detailed"
    THEN Respond(r, SortDetailed(r.rows),
                 [status |-> 200,
                  body |-> Paginate(SortDetailed(r.rows), r.page, r.limit)])
    ELSE Respond(r, r.rows, [status |-> 200, csv |-> r.rows])

\* the for loop moves to the next account, or ends
NextDetailed(r) ==
    IF r.i < Len(r.accountIds)
    THEN [r EXCEPT !.i = @ + 1,
                   !.called = Append(@, r.accountIds[r.i + 1])]
    ELSE DetailedDone(r)

\* A request arrives: the handler answers 400, or issues its first
\* service call (getMultiAccountTransactions for the whole list,
\* getComplianceTransactions for the first account)
Request(route, user, accountIds, q, page, limit) ==
    /\ mode = "idle"
    /\ mode' = "route"
    /\ LET v == Validate(route, user, accountIds, q)
           r == [IdleRoute EXCEPT !.route = route, !.user = user,
                    !.query = [q EXCEPT !.accountIds = accountIds],
                    !.page = page, !.limit = limit]
       IN  rstate' =
             IF v = BadRequest THEN Respond(r, <<>>, BadRequest)
             ELSE [r EXCEPT !.pc = "await",
                      !.startDate = v.startDate, !.endDate = v.endDate,
                      !.timezone = v.timezone,
                      !.accountIds = v.accountIdList, !.i = 1,
                      !.called = IF route \in SummaryRoutes
                                 THEN v.accountIdList
                                 ELSE << v.accountIdList[1] >>]
    /\ UNCHANGED <<col, bstate, mstate, failures, gstate, nstate, qstate>>

\* getComplianceTransactions resolves for the current account
ComplianceReturns ==
    /\ mode = "route"
    /\ rstate.pc = "await"
    /\ rstate.route \in DetailedRoutes
    /\ LET accountId == rstate.accountIds[rstate.i]
       IN  rstate' = NextDetailed([rstate EXCEPT
               !.rows = @ \o AccountRows(rstate.route, accountId,
                                         ComplianceData(accountId)),
               !.fetched = @ \cup {accountId}])
    /\ UNCHANGED <<col, mode, bstate, mstate, failures, gstate, nstate, qstate>>

\* getComplianceTransactions throws: the detail view logs and continues
\* with the next account, the export answers 500
ComplianceThrows ==
    /\ mode = "route"
    /\ rstate.pc = "await"
    /\ rstate.route \in DetailedRoutes
    /\ rstate' = IF rstate.route = "GET /detailed"
                 THEN NextDetailed(rstate)
                 ELSE Respond(rstate, rstate.rows, [status |-> 500])
    /\ UNCHANGED <<col, mode, bstate, mstate, failures, gstate, nstate, qstate>>

\* getMultiAccountTransactions resolves
MultiReturns(survivors) ==
    /\ mode = "route"
    /\ rstate.pc = "await"
    /\ rstate.route \in SummaryRoutes
    /\ LET transactions ==
               MultiTransactions(rstate.accountIds, survivors,
                   rstate.startDate.day, rstate.endDate.day, rstate.timezone)
           r == [rstate EXCEPT !.fetched = survivors]
       IN  rstate' =
               IF rstate.route = "GET /multi"
               THEN Respond(r, transactions,
                        [status |-> 200,
                         body |-> Paginate(transactions, r.page, r.limit)])
               ELSE Respond(r, transactions,
                        [status |-> 200,
                         csv |-> [k \in DOMAIN transactions |->
                                     SummaryCsvRow(transactions[k])]])
    /\ UNCHANGED <<col, mode, bstate, mstate, failures, gstate, nstate, qstate>>

\* the path text '1,2,...,n'
RECURSIVE PathOf(_)
PathOf(n) ==
    IF n = 1 THEN AccountText(1) ELSE PathOf(n - 1) \o <<",">> \o AccountText(n)

\* the account paths of the requests: the first n accounts, the last
\* account alone, and texts that hold no account id
AccountPaths ==
    { PathOf(n) : n \in 1..MaxAccounts }
        \cup { AccountText(MaxAccounts), <<",">>, <<" ">> }

\* the master, and the user of the first account
Users ==
    { [isMaster |-> TRUE, stripeId |-> 1], [isMaster |-> FALSE, stripeId |-> 1] }

DateInputs == { Missing, Unparseable } \cup { DateText(d) : d \in Days }

TimezoneInputs == { Missing, [given |-> TRUE, tz |-> 0] }

\* the period, start_date, end_date and timezone of the requests; the
\* dates and the timezone are sent with the custom period only
Queries ==
    [period : {"custom"}, start_date : DateInputs, end_date : DateInputs,
     timezone : TimezoneInputs, accountIds : {<<>>}]
        \cup [period : {"daily", "weekly", "monthly", "yearly"},
              start_date : {Missing}, end_date : {Missing},
              timezone : {Missing}, accountIds : {<<>>}]

\* the whole range of the store, in UTC
FullRange ==
    [period |-> "custom", start_date |-> DateText(1),
     end_date |-> DateText(MaxDay), timezone |-> [given |-> TRUE, tz |-> 0],
     accountIds |-> <<>>]

NextRoute ==
    \/ \E route \in PagedRoutes, n \in 1..MaxAccounts,
          page \in 1..MaxPage, limit \in 1..MaxLimit :
            Request(route, CHOOSE u \in Users : u.isMaster, PathOf(n),
                    FullRange, page, limit)
    \/ \E route \in DetailedRoutes \cup SummaryRoutes, user \in Users,
          accountIds \in AccountPaths, q \in Queries :
            Request(route, user, accountIds, q, 1, MaxLimit)
    \/ ComplianceReturns
    \/ ComplianceThrows
    \/ \E survivors \in SUBSET (0..MaxAccounts) :
            survivors \subseteq
                { rstate.accountIds[k] : k \in DOMAIN rstate.accountIds }
               /\ MultiReturns(survivors)

SpecRoute == Init /\ [][NextRoute]_vars

----------------------------------------------------------------------------
(* Specification SpecQuery: applyQueryFilters of the Sigma query service   *)
(* applied to a list of charge rows.  A query is held as the clauses its   *)
(* text includes: the WHERE conditions the code looks for, the ORDER BY    *)
(* direction, the number after LIMIT (0 when the text has no LIMIT) and    *)
(* the columns of the SELECT clause.  No query has a GROUP BY.  A row's    *)
(* created is the formatted text of its Unix time.                         *)

MaxRows == 3          \* rows handed to one applyQueryFilters call
MaxQueryLimit == 2    \* the numbers of the LIMIT clause

\* a row as the service builds it from a charge
QueryRow(n, status) ==
    [charge_id |-> <<"charges", n>>, created |-> FormatCreated(n),
     status |-> status, customer_ip |-> IF status = "failed" THEN <<>> ELSE OwnIp,
     has_ip_data |-> status # "failed", has_metadata |-> FALSE,
     risk_level |-> IF status = "failed" THEN "elevated" ELSE "normal"]

QueryRows == { QueryRow(n, status) : n \in 1..MaxRows,
                                     status \in {"succeeded", "failed"} }

\* the lists of rows, no two rows of a list created at the same time
QueryData ==
    { d \in SeqsUpTo(QueryRows, MaxRows) :
        \A i, j \in DOMAIN d : d[i].created = d[j].created => i = j }

WhereConditions ==
    { "status = 'failed'", "status = 'succeeded'", "customer_ip is not null",
      "has_ip_data = true", "has_metadata = true",
      "risk_level in ('elevated', 'highest')" }

\* row => ... of the filter applied for a WHERE condition
Passes(condition, row) ==
    CASE condition = "status = 'failed'"       -> row.status = "failed"
      [] condition = "status = 'succeeded'"    -> row.status = "succeeded"
      [] condition = "customer_ip is not null" -> row.customer_ip # <<>>
      [] condition = "has_ip_data = true"      -> row.has_ip_data = TRUE
      [] condition = "has_metadata = true"     -> row.has_metadata = TRUE
      [] condition = "risk_level in ('elevated', 'highest')" ->
           row.risk_level \in {"elevated", "highest"}

\* the chain of filters
ApplyWhere(query, data) ==
    LET PassesAll(row) == \A c \in query.where : Passes(c, row)
    IN  SelectSeq(data, PassesAll)

\* (a, b) => new Date(a.created) - new Date(b.created)
CompareAscending(a, b) == ParseCreated(a.created) - ParseCreated(b.created)

\* filteredData.sort(...) ascending, a stable sort
RECURSIVE SortAscending(_)
SortAscending(rows) ==
    IF rows = <<>> THEN <<>>
    ELSE LET sorted == SortAscending(SubSeq(rows, 1, Len(rows) - 1))
             x == Last(rows)
             k == Cardinality({ j \in DOMAIN sorted :
                                  CompareAscending(sorted[j], x) <= 0 })
         IN  SubSeq(sorted, 1, k) \o <<x>> \o SubSeq(sorted, k + 1, Len(sorted))

\* the LIMIT step: filteredData.slice(0, limit) when the text has a LIMIT
ApplyLimit(query, rows) ==
    IF query.limit > 0 THEN Slice(rows, 0, query.limit) ELSE rows

\* the ORDER BY step
ApplyOrderBy(query, rows) ==
    IF query.orderBy = "created desc" THEN SortDetailed(rows)
    ELSE IF query.orderBy = "created asc" THEN SortAscending(rows)
    ELSE rows

\* extractColumns: the columns of the SELECT clause
extractColumns(query) == query.select

\* columns.forEach(col => { result[col] = row[col] || '' })
ExtractRow(columns, row) ==
    [c \in { columns[k] : k \in DOMAIN columns } |->
        IF c \in DOMAIN row THEN row[c] ELSE <<>>]

\* applyQueryFilters: WHERE, then LIMIT, then ORDER BY, then the columns
applyQueryFilters(query, data) ==
    LET filteredData == ApplyOrderBy(query,
                            ApplyLimit(query, ApplyWhere(query, data)))
        columns == extractColumns(query)
        resultData == [k \in DOMAIN filteredData |->
                          ExtractRow(columns, filteredData[k])]
    IN  [success |-> TRUE, data |-> resultData, columns |-> columns,
         row_count |-> Len(resultData)]

RunQuery(query, data) ==
    /\ mode = "idle"
    /\ mode' = "query"
    /\ qstate' = [pc |-> "returned", query |-> query, data |-> data,
                  result |-> applyQueryFilters(query, data)]
    /\ UNCHANGED <<col, bstate, mstate, failures, gstate, nstate, rstate>>

\* the queries: at most one WHERE condition, or a status and the IP one
SigmaQueries ==
    [where : { {} } \cup { {c} : c \in WhereConditions }
               \cup { {"status = 'succeeded'", "customer_ip is not null"} },
     orderBy : { "", "created desc", "created asc" },
     limit : 0..MaxQueryLimit,
     select : { << "charge_id", "status", "created", "failure_code" >> }]

NextQuery ==
    \E query \in SigmaQueries, data \in QueryData : RunQuery(query, data)

SpecQuery == Init /\ [][NextQuery]_vars

----------------------------------------------------------------------------
(* Properties of one collector (specification Spec) *)

Returned(c) == c.pc = "done"

NoFailure(c) == \A i \in DOMAIN c.pages : c.pages[i].ok

PageData(c) == [i \in DOMAIN c.pages |-> c.pages[i].data]

IsPaymentEvent(r) ==
    r.type[1] \in {"charge", "payment_intent", "refund", "dispute", "balance"}

\* The records of the received pages a collector is to return
Expected(fn, c) ==
    IF fn = "getEvents"
    THEN SelectSeq(Flatten(PageData(c)), IsPaymentEvent)
    ELSE Flatten(PageData(c))

\* C1 as stated: when no list call fails, every collector returns every
\* record of every page the upstream returned, in the upstream's order.
C1_AllRecordsInOrder ==
    \A fn \in Collectors :
        Returned(col[fn]) /\ NoFailure(col[fn])
            => col[fn].out = Flatten(PageData(col[fn]))

\* C1 amended: when no list call fails, every collector but getEvents
\* returns the concatenation of the pages it received, in order; getEvents
\* returns, in order, the payment-related events of the pages it received
\* (type starting with charge., payment_intent., refund., dispute. or
\* balance.) and drops the other events.
C1_KeptRecordsInOrder ==
    \A fn \in Collectors :
        Returned(col[fn]) /\ NoFailure(col[fn])
            => col[fn].out = Expected(fn, col[fn])

C1_Witness ==
    \E fn \in Collectors \ {"getEvents"} :
        /\ Returned(col[fn]) /\ NoFailure(col[fn])
        /\ Len(col[fn].pages) >= 2
        /\ Len(col[fn].out) >= 3
        /\ \E i, j \in DOMAIN col[fn].out : col[fn].out[i] # col[fn].out[j]

\* n non-empty pages, none failed, only the last with has_more = false
ExhaustedRun(c) ==
    /\ c.pages # <<>>
    /\ \A i \in DOMAIN c.pages :
         /\ c.pages[i].ok
         /\ c.pages[i].data # <<>>
         /\ c.pages[i].has_more = (i < Len(c.pages))

\* C2 as stated: fed n non-empty pages of which only the last has
\* has_more = false, a collector returns as many records as the pages hold
\* and issues exactly n list calls.
C2_CountAndCalls ==
    \A fn \in Collectors :
        Returned(col[fn]) /\ ExhaustedRun(col[fn])
            => /\ Len(col[fn].out) = Len(Flatten(PageData(col[fn])))
               /\ Len(col[fn].calls) = Len(col[fn].pages)

\* C2 amended: fed n non-empty pages of which only the last has
\* has_more = false, every collector issues exactly n list calls; every
\* collector but getEvents returns as many records as the pages hold, and
\* getEvents returns as many as the pages hold payment-related events.
C2_KeptCountAndCalls ==
    \A fn \in Collectors :
        Returned(col[fn]) /\ ExhaustedRun(col[fn])
            => /\ Len(col[fn].out) = Len(Expected(fn, col[fn]))
               /\ Len(col[fn].calls) = Len(col[fn].pages)

C2_Witness ==
    \E fn \in Collectors :
        /\ Returned(col[fn]) /\ ExhaustedRun(col[fn])
        /\ Len(col[fn].pages) = MaxCalls
        /\ \A i \in DOMAIN col[fn].pages :
             Len(col[fn].pages[i].data) = IF i < MaxCalls THEN MaxPageLen ELSE 1

\* C3 as stated: the first list call carries no cursor, each later call
\* carries starting_after = id of the last record of the preceding page,
\* and every call has limit 100 and the created >= start, <= end filter.
C3_CursorChain ==
    \A fn \in Collectors :
        \A i \in DOMAIN col[fn].calls :
            LET c == col[fn]  call == c.calls[i] IN
            /\ call.limit = PageLimit
            /\ call.created /\ call.gte = c.gte /\ call.lte = c.lte
            /\ i = 1 => call.starting_after = Null
            /\ i > 1 => /\ c.pages[i-1].data # <<>>
                        /\ call.starting_after = Last(c.pages[i-1].data).id

\* C4 as stated: after a failed list call the collector makes no further
\* upstream call, does not throw, and returns the records of the pages
\* received before the failure.
C4_StopOnFailure ==
    \A fn \in Collectors :
        \A i \in DOMAIN col[fn].pages :
            ~col[fn].pages[i].ok
                => /\ Len(col[fn].calls) = i
                   /\ Returned(col[fn])
                   /\ col[fn].out = Flatten(PageData(col[fn]))

\* C4 amended: after a failed pagination call the collector makes no
\* further pagination call and does not throw; it returns the records of
\* the pages received before the failure (getEvents: the payment-related
\* ones). getCharges and getPaymentIntents, when they collected nothing,
\* first make one more list call (limit 5, no date filter, no cursor) whose
\* outcome is ignored; no other upstream call follows the failure.
C4_StopPagingOnFailure ==
    \A fn \in Collectors :
        \A i \in DOMAIN col[fn].pages :
            LET c == col[fn] IN
            ~c.pages[i].ok
                => /\ i = Len(c.pages)
                   /\ LoopCalls(c) = i
                   /\ c.out = Expected(fn, c)
                   /\ IF HasDiagnostic(fn) /\ c.out = <<>>
                      THEN /\ Len(c.calls) = i + 1
                           /\ c.calls[i + 1] = TestParams(c, EndpointOf(fn))
                           /\ c.pc \in {"awaitTest", "done"}
                      ELSE /\ Len(c.calls) = i
                           /\ c.pc = "done"

C4_Witness ==
    \E fn \in Collectors :
        /\ Returned(col[fn])
        /\ Len(col[fn].pages) >= 2
        /\ ~Last(col[fn].pages).ok
        /\ col[fn].out # <<>>

\* C5 as stated: once a page with zero records is received the collector
\* makes no further list call, whatever the page's has_more flag.
C5_StopOnEmptyPage ==
    \A fn \in Collectors :
        \A i \in DOMAIN col[fn].pages :
            (col[fn].pages[i].ok /\ col[fn].pages[i].data = <<>>)
                => Len(col[fn].calls) = i

----------------------------------------------------------------------------
(* Properties of the per-account bundle fetch (specification SpecBundle) *)

\* The field of the returned bundle that holds a collector's list
ResultField(bfn, fn) ==
    CASE fn = "getCharges"             -> "charges"
      [] fn = "getPaymentIntents"      -> "paymentIntents"
      [] fn = "getBalanceTransactions" -> "balanceTransactions"
      [] fn = "getEvents"              -> "events"
      [] fn = "getDetailedRefunds" ->
           IF bfn = "getComprehensiveTransactions"
           THEN "detailedRefunds" ELSE "refunds"
      [] fn = "getDetailedDisputes" ->
           IF bfn = "getComprehensiveTransactions"
           THEN "detailedDisputes" ELSE "disputes"

\* The collectors whose list the bundle returns as it is
ListedCollectors(bfn) ==
    IF bfn = "getComprehensiveTransactions"
    THEN { "getPaymentIntents", "getBalanceTransactions", "getEvents",
           "getDetailedRefunds", "getDetailedDisputes" }
    ELSE BundleCollectors(bfn)

GroupedCollectors ==
    { "getCharges", "getRefunds", "getChargebacks", "getDeclines" }

\* What the upstream holds for a collector in the requested window
InStore(fn) ==
    LET w == StoreWindow(bstate.acct, EndpointOf(fn), TRUE,
                         DateToUnix(bstate.startDate, bstate.tz),
                         DateToUnix(bstate.endDate, bstate.tz))
    IN  IF fn = "getEvents" THEN SelectSeq(w, IsPaymentEvent) ELSE w

\* C6: a bundle fetch never throws, whichever list calls fail; in the
\* bundle it returns, the list of every record kind is what that kind's own
\* calls returned, and a kind none of whose calls failed holds exactly the
\* upstream's records for the window although calls of other kinds failed.
C6_BundleIsolation ==
    /\ bstate.pc # "thrown"
    /\ bstate.pc = "returned" =>
         /\ \A fn \in ListedCollectors(bstate.fn) :
              LET list == bstate.result[ResultField(bstate.fn, fn)] IN
              /\ list = Expected(fn, col[fn])
              /\ NoFailure(col[fn]) => list = InStore(fn)
         /\ ( /\ bstate.fn = "getComprehensiveTransactions"
              /\ \A fn \in GroupedCollectors : NoFailure(col[fn]) )
            => bstate.result.transactions =
                 groupTransactionsByDate(InStore("getCharges"),
                     InStore("getRefunds"), InStore("getChargebacks"),
                     InStore("getDeclines"), bstate.startDate,
                     bstate.endDate, bstate.tz, bstate.acct)

C6_Witness ==
    /\ bstate.pc = "returned"
    /\ \E fn, other \in ListedCollectors(bstate.fn) :
         /\ ~NoFailure(col[fn])
         /\ Len(col[fn].out) < Len(InStore(fn))
         /\ NoFailure(col[other])
         /\ bstate.result[ResultField(bstate.fn, other)] # <<>>

----------------------------------------------------------------------------
(* Properties of getMultiAccountTransactions (specification SpecMulti) *)

MultiReturned == mstate.pc = "returned"

WithoutSource(row) == [f \in DOMAIN row \ {"source"} |-> row[f]]

Count(s, x) == Cardinality({ j \in DOMAIN s : s[j] = x })

SameRows(a, b) ==
    /\ Len(a) = Len(b)
    /\ \A j \in DOMAIN a : Count(a, a[j]) = Count(b, a[j])

\* The rows getTransactions returned for the accounts that did not throw
RowsOfSurvivors ==
    Flatten([j \in DOMAIN mstate.outcomes |->
                IF mstate.outcomes[j].threw THEN <<>>
                ELSE mstate.outcomes[j].rows])

Survivors ==
    LET Survived(o) == ~o.threw
        kept == SelectSeq(mstate.outcomes, Survived)
    IN  [j \in DOMAIN kept |-> kept[j].account]

\* C7: whichever accounts throw, all of them included,
\* getMultiAccountTransactions does not throw and returns as transactions
\* exactly the daily rows of the accounts that did not throw (none when
\* every account throws).
C7_PartialFailureTolerance ==
    /\ mstate.pc # "thrown"
    /\ MultiReturned =>
         /\ Len(mstate.outcomes) = Len(mstate.accountIds)
         /\ SameRows([j \in DOMAIN mstate.result.transactions |->
                         WithoutSource(mstate.result.transactions[j])],
                     RowsOfSurvivors)
         /\ (\A j \in DOMAIN mstate.outcomes : mstate.outcomes[j].threw)
              => mstate.result.transactions = <<>>

C7_Witness ==
    /\ MultiReturned
    /\ Len(mstate.outcomes) >= 3
    /\ ~mstate.outcomes[1].threw
    /\ mstate.outcomes[2].threw
    /\ ~mstate.outcomes[3].threw
    /\ Len(mstate.result.transactions) >= 2

\* C8 as stated: the returned accounts list holds exactly the accounts that
\* did not throw, which are the accounts that contributed rows.
C8_SkippedEntirely ==
    MultiReturned =>
        /\ [j \in DOMAIN mstate.result.accounts |->
               mstate.result.accounts[j].id] = Survivors
        /\ { mstate.result.accounts[j].id : j \in DOMAIN mstate.result.accounts }
             = { mstate.result.transactions[j].account_id :
                   j \in DOMAIN mstate.result.transactions }

\* C9: every row getMultiAccountTransactions holds or returns carries the
\* account_id of the account whose upstream calls produced it.
C9_RowsTagged ==
    /\ \A j \in DOMAIN mstate.allTransactions :
         mstate.allTransactions[j].account_id = mstate.allTransactions[j].source
    /\ \A j \in DOMAIN mstate.result.transactions :
         mstate.result.transactions[j].account_id
             = mstate.result.transactions[j].source

C9_Witness ==
    /\ MultiReturned
    /\ \E j, k \in DOMAIN mstate.result.transactions :
         /\ j < k
         /\ mstate.result.transactions[j].source
              > mstate.result.transactions[k].source
    /\ \E j \in DOMAIN mstate.outcomes : mstate.outcomes[j].threw

\* C10: the returned rows are in descending date order: no row is earlier
\* than the row after it.
C10_SortedDescending ==
    MultiReturned =>
        \A j \in 1..(Len(mstate.result.transactions) - 1) :
            mstate.result.transactions[j].date
                >= mstate.result.transactions[j + 1].date

C10_Witness ==
    /\ MultiReturned
    /\ Cardinality({ mstate.result.transactions[j].account_id :
                       j \in DOMAIN mstate.result.transactions }) >= 2
    /\ Cardinality({ mstate.result.transactions[j].date :
                       j \in DOMAIN mstate.result.transactions }) >= 2

----------------------------------------------------------------------------
(* Properties of groupTransactionsByDate (SpecGroup) *)

GroupReturned == gstate.pc = "returned"

\* r was created on calendar date d of the timezone: local time is Unix
\* time plus the offset, and day d spans the ticks d*TicksPerDay up to
\* (d+1)*TicksPerDay
OnLocalDate(r, d, tz) ==
    /\ d * TicksPerDay <= r.created + tz
    /\ r.created + tz < (d + 1) * TicksPerDay

\* the supplied records of a kind that fall on date d
SuppliedOn(kind, d) ==
    LET OnD(r) == OnLocalDate(r, d, gstate.tz)
    IN  SelectSeq(gstate[kind], OnD)

RECURSIVE SumAmounts(_)
SumAmounts(records) ==
    IF records = <<>> THEN 0
    ELSE Head(records).amount + SumAmounts(Tail(records))

\* a raw amount (minor units) as a number of major units
MajorUnits(raw) == (raw * Scale) \div 100

EmptyBucket(b) ==
    /\ b.charges_count = 0 /\ b.charges_amount = 0
    /\ b.refunds_count = 0 /\ b.refunds_amount = 0
    /\ b.chargebacks_count = 0 /\ b.chargebacks_amount = 0
    /\ b.declines_count = 0
    /\ b.totals_count = 0 /\ b.totals_amount = 0

\* C11: groupTransactionsByDate returns one bucket per calendar date of
\* [startDate, endDate], in ascending date order, none missing or repeated,
\* each tagged with the account id, whatever records are supplied; the
\* bucket of a date on which no record falls has zero counts and amounts.
C11_OneBucketPerDate ==
    GroupReturned =>
        LET res == gstate.result IN
        /\ Len(res) = gstate.endDate - gstate.startDate + 1
        /\ \A i \in DOMAIN res :
              /\ res[i].date = gstate.startDate + i - 1
              /\ res[i].account_id = gstate.accountId
              /\ (\A kind \in GroupKinds :
                      SuppliedOn(kind, res[i].date) = <<>>)
                   => EmptyBucket(res[i])

\* two dates, records supplied, one bucket with records and one without
C11_Witness ==
    /\ GroupReturned
    /\ gstate.startDate < gstate.endDate
    /\ \E i, j \in DOMAIN gstate.result :
          /\ gstate.result[i].totals_count > 0
          /\ EmptyBucket(gstate.result[j])
          /\ \A kind \in GroupKinds :
                 SuppliedOn(kind, gstate.result[j].date) = <<>>

\* C12: in every returned bucket the net total is the charges amount less
\* the refunds amount less the chargebacks amount, rounded to two decimals.
C12_SignedTotal ==
    GroupReturned =>
        \A i \in DOMAIN gstate.result :
            LET b == gstate.result[i] IN
            b.totals_amount =
                Round2(b.charges_amount - b.refunds_amount
                           - b.chargebacks_amount)

\* a bucket holding a charge, a refund and a chargeback
C12_Witness ==
    /\ GroupReturned
    /\ \E i \in DOMAIN gstate.result :
          /\ gstate.result[i].charges_count > 0
          /\ gstate.result[i].refunds_count > 0
          /\ gstate.result[i].chargebacks_count > 0

\* p (fixed point) is x / y rounded to two decimals: a whole number of
\* hundredths within half a hundredth of the quotient
RoundedQuotient(p, x, y) ==
    /\ p % (Scale \div 100) = 0
    /\ 2 * (p * y - x * Scale) <= (Scale \div 100) * y
    /\ 2 * (x * Scale - p * y) <= (Scale \div 100) * y

\* C13: in every returned bucket aprvl_pct is
\* charges_count / (charges_count + declines_count) * 100 rounded to two
\* decimals, and 100 when there is neither a charge nor a decline; three
\* charges and one decline give 75.
C13_ApprovalRate ==
    GroupReturned =>
        \A i \in DOMAIN gstate.result :
            LET b == gstate.result[i]
                attempts == b.charges_count + b.declines_count
            IN  /\ attempts = 0 => b.aprvl_pct = Num(100)
                /\ attempts > 0 =>
                      RoundedQuotient(b.aprvl_pct, b.charges_count * 100,
                                      attempts)
                /\ (b.charges_count = 3 /\ b.declines_count = 1)
                      => b.aprvl_pct = Num(75)

\* a bucket of three charges and one decline
C13_Witness ==
    /\ GroupReturned
    /\ \E i \in DOMAIN gstate.result :
          /\ gstate.result[i].charges_count = 3
          /\ gstate.result[i].declines_count = 1

\* C14: every supplied record is counted in the bucket of its local
\* calendar date in the requested timezone and in no other bucket, and a
\* record whose local date is outside [startDate, endDate] is counted
\* nowhere: each bucket's counts and amounts are those of the records that
\* fall on its date.
C14_CountedOnLocalDate ==
    GroupReturned =>
        \A i \in DOMAIN gstate.result :
            LET b == gstate.result[i]
                charges == SuppliedOn("charges", b.date)
                refunds == SuppliedOn("refunds", b.date)
                chargebacks == SuppliedOn("chargebacks", b.date)
                declines == SuppliedOn("declines", b.date)
            IN  /\ b.charges_count = Len(charges)
                /\ b.refunds_count = Len(refunds)
                /\ b.chargebacks_count = Len(chargebacks)
                /\ b.declines_count = Len(declines)
                /\ b.totals_count = Len(charges) + Len(refunds)
                                       + Len(chargebacks) + Len(declines)
                /\ b.charges_amount = MajorUnits(SumAmounts(charges))
                /\ b.refunds_amount = MajorUnits(SumAmounts(refunds))
                /\ b.chargebacks_amount = MajorUnits(SumAmounts(chargebacks))

\* under the offset 1 a record falls on the day after its UTC date and is
\* counted there, and another record falls after endDate
C14_Witness ==
    /\ GroupReturned
    /\ gstate.tz = 1
    /\ \E kind \in GroupKinds :
          \E k \in DOMAIN gstate[kind] :
             LET r == gstate[kind][k] IN
             /\ ~OnLocalDate(r, r.created \div TicksPerDay, gstate.tz)
             /\ \E i \in DOMAIN gstate.result :
                   /\ OnLocalDate(r, gstate.result[i].date, gstate.tz)
                   /\ gstate.result[i].totals_count > 0
    /\ \E kind \in GroupKinds :
          \E k \in DOMAIN gstate[kind] :
             \A d \in gstate.startDate..gstate.endDate :
                ~OnLocalDate(gstate[kind][k], d, gstate.tz)

----------------------------------------------------------------------------
(* Properties of the normalizers (SpecNormalize) *)

NormalizedBy(fns) == nstate.pc = "returned" /\ nstate.fn \in fns

\* r.f, or "" when the record lacks the field
FieldOrEmpty(r, f) == IF f \in DOMAIN r THEN r[f] ELSE ""

\* C16: a payment-intent row of the detail view and of the detailed
\* exports has paid and captured equal to (status = succeeded), disputed
\* false, and its failure code and message from last_payment_error.
C16_PaymentIntentDerived ==
    NormalizedBy(PaymentIntentNormalizers) =>
        LET pi  == nstate.record
            row == nstate.row
            lpe == Sub(pi, "last_payment_error")
        IN  /\ row.paid = (pi.status = "succeeded")
            /\ row.captured = (pi.status = "succeeded")
            /\ row.disputed = FALSE
            /\ row.failure_code = FieldOrEmpty(lpe, "code")
            /\ row.failure_message = FieldOrEmpty(lpe, "message")

\* The candidate values of a charge in priority order: the candidate keys
\* of its own metadata, then of its payment intent's, then of its source's
CandidateValues(charge) ==
    LET levels == << Sub(charge, "metadata"),
                     Sub(Sub(charge, "payment_intent"), "metadata"),
                     Sub(Sub(charge, "source"), "metadata") >>
        n == Len(ipFields)
    IN  [k \in 1..(3 * n) |->
            LET md  == levels[((k - 1) \div n) + 1]
                key == ipFields[((k - 1) % n) + 1]
            IN  IF key \in DOMAIN md THEN md[key] ELSE <<>>]

\* the first candidate that is present and a valid IP literal, else ''
FirstValidCandidate(charge) ==
    LET c == CandidateValues(charge)
        valid == { k \in DOMAIN c : c[k] # <<>> /\ isValidIP(c[k]) }
    IN  IF valid = {} THEN <<>>
        ELSE c[CHOOSE k \in valid : \A h \in valid : k <= h]

\* C17: the customer IP extracted from a charge is the first candidate, in
\* the order own metadata, payment-intent metadata, source metadata and in
\* the order of the candidate keys, that is present and a valid IP literal.
C17_ExtractionPriority ==
    NormalizedBy(ChargeNormalizers \cup {"extractCustomerIP"}) =>
        nstate.row.customer_ip = FirstValidCandidate(nstate.record)

\* C18: the customer_ip of a normalized charge or payment-intent row is
\* the empty string or a syntactically valid IPv4 or IPv6 literal.
C18_ValidOrEmpty ==
    NormalizedBy(ChargeNormalizers \cup PaymentIntentNormalizers) =>
        \/ nstate.row.customer_ip = <<>>
        \/ isValidIP(nstate.row.customer_ip)

\* C19: a normalized row carries the record's id and the account id, its
\* booleans are booleans, and a string field whose upstream field is
\* missing is the empty string (customer_ip when the metadata hold no IP
\* candidate).
C19_DefaultsForMissing ==
    NormalizedBy(ChargeNormalizers \cup PaymentIntentNormalizers) =>
        LET r   == nstate.record
            row == nstate.row
            failure == IF nstate.fn \in ChargeNormalizers THEN r
                       ELSE Sub(r, "last_payment_error")
        IN  /\ row.id = r.id
            /\ row.account_id = nstate.accountId
            /\ { row.paid, row.captured, row.disputed } \subseteq BOOLEAN
            /\ \A f \in { "description", "receipt_email" } :
                  f \notin DOMAIN r => row[f] = ""
            /\ DOMAIN failure \cap { "failure_code", "code" } = {}
                  => row.failure_code = ""
            /\ DOMAIN failure \cap { "failure_message", "message" } = {}
                  => row.failure_message = ""
            /\ (/\ \A k \in DOMAIN CandidateValues(r) :
                        CandidateValues(r)[k] = <<>>
                   /\ "request_ip" \notin DOMAIN Sub(r, "metadata"))
                  => row.customer_ip = <<>>

----------------------------------------------------------------------------
(* Properties of the route handlers (SpecRoute) *)

Responded(routes) ==
    /\ rstate.pc = "responded"
    /\ rstate.route \in routes
    /\ rstate.response.status = 200

\* the upstream record a normalized row was made from
RawRecord(row) ==
    LET recs == Store(row.account_id, row.id[1])
    IN  recs[CHOOSE k \in DOMAIN recs : recs[k].id = row.id]

\* the charges of an account's store that fall on a date (UTC)
ChargesOn(acct, date) ==
    LET OnD(r) == OnLocalDate(r, date, 0)
    IN  SelectSeq(Store(acct, "charges"), OnD)

\* the decimal text, to two decimals, of an amount of major units
AmountText(x) == [hundredths |-> x \div (Scale \div 100)]

\* C15: the division by 100 is applied exactly once between a raw record
\* and an output value: a normalized row shows its record's amount in
\* major units, a daily bucket shows the sum of its charges in major
\* units, and the monetary columns of the summary CSV show the bucket's
\* amounts.
C15_ConvertedOnce ==
    /\ Responded(DetailedRoutes) =>
          \A k \in DOMAIN rstate.rows :
              rstate.rows[k].amount
                  = MajorUnits(RawRecord(rstate.rows[k]).amount)
    /\ Responded(SummaryRoutes) =>
          \A k \in DOMAIN rstate.rows :
              LET tx == rstate.rows[k] IN
              tx.charges_amount
                  = MajorUnits(SumAmounts(ChargesOn(tx.account_id, tx.date)))
    /\ Responded({"POST /csv"}) =>
          \A k \in DOMAIN rstate.rows :
              LET tx == rstate.rows[k]
                  row == rstate.response.csv[k]
              IN  /\ row.charges_amount = AmountText(tx.charges_amount)
                  /\ row.refunds_amount = AmountText(tx.refunds_amount)
                  /\ row.chargebacks_amount = AmountText(tx.chargebacks_amount)
                  /\ row.totals_amount = AmountText(tx.totals_amount)

\* a is not older than b
NotOlder(a, b) ==
    IF rstate.route = "GET /multi" THEN a.date >= b.date
    ELSE \/ a.created[1] > b.created[1]
         \/ a.created[1] = b.created[1] /\ a.created[2] >= b.created[2]

InvalidRequest(q) ==
    \/ q.period = "custom" /\ (Falsy(q.start_date) \/ Falsy(q.end_date))
    \/ q.start_date = Unparseable
    \/ q.end_date = Unparseable
    \/ /\ q.start_date \notin { Missing, Unparseable }
       /\ q.end_date \notin { Missing, Unparseable }
       /\ q.start_date.day > q.end_date.day
    \/ \A k \in DOMAIN ParseAccountIds(q.accountIds) :
           ParseAccountIds(q.accountIds)[k] = 0

\* C21: in every report and export endpoint a request with a missing
\* date, an unparseable date, a start date after the end date or an
\* account list without an account id is answered 400, and no service call
\* (hence no upstream call) is issued for it.
C21_RejectedBeforeCalls ==
    (rstate.pc # "idle" /\ InvalidRequest(rstate.query))
        => /\ rstate.pc = "responded"
           /\ rstate.response = BadRequest
           /\ rstate.called = <<>>

\* C29: while a request of a user who is not the master is served, every
\* service call (hence every upstream data call) is issued for the user's
\* own account, whatever the account path names, and no row of the
\* response belongs to another account.
C29_OwnAccountOnly ==
    (rstate.pc # "idle" /\ ~rstate.user.isMaster)
        => /\ \A k \in DOMAIN rstate.called :
                  rstate.called[k] = rstate.user.stripeId
           /\ \A k \in DOMAIN rstate.rows :
                  rstate.rows[k].account_id = rstate.user.stripeId

\* C24: in every endpoint that builds normalized detail rows per account,
\* an account whose fetch throws is skipped: the response is successful
\* and holds the rows of the accounts whose fetch resolved.
C24_FailingAccountSkipped ==
    (rstate.pc = "responded" /\ rstate.route \in DetailedRoutes
        /\ rstate.response # BadRequest)
        => /\ rstate.response.status = 200
           /\ rstate.called = rstate.accountIds
           /\ { rstate.rows[k].account_id : k \in DOMAIN rstate.rows }
                 = rstate.fetched

\* The state of a collector that runs alone and receives, call after call,
\* what the store answers to its own calls, a failure where oks is FALSE
RECURSIVE RunAlone(_, _, _)
RunAlone(fn, c, oks) ==
    IF oks = <<>> THEN c
    ELSE RunAlone(fn,
             CollectorResume(fn, c,
                 IF Head(oks) THEN StoreList(Last(c.calls)) ELSE Failure),
             Tail(oks))

\* The collector of the running bundle fetch, run alone over the outcomes
\* (answered or failed) of its own pagination calls
Alone(fn) ==
    RunAlone(fn,
        CollectorStart(fn, bstate.acct,
            DateToUnix(bstate.startDate, bstate.tz),
            DateToUnix(bstate.endDate, bstate.tz)),
        [i \in DOMAIN col[fn].pages |-> col[fn].pages[i].ok])

\* every collector is where it would be had it run alone (the outcome of
\* the diagnostic call is ignored), and the returned bundle holds the lists
\* of the collectors run alone
OwnResponsesOnly ==
    mode = "bundle" =>
        /\ \A fn \in BundleCollectors(bstate.fn) :
              \/ col[fn] = Alone(fn)
              \/ /\ Alone(fn).pc = "awaitTest"
                 /\ col[fn] = [Alone(fn) EXCEPT !.pc = "done"]
        /\ bstate.pc = "returned" =>
              /\ \A fn \in ListedCollectors(bstate.fn) :
                    bstate.result[ResultField(bstate.fn, fn)] = Alone(fn).out
              /\ bstate.fn = "getComprehensiveTransactions" =>
                    bstate.result.transactions =
                        groupTransactionsByDate(Alone("getCharges").out,
                            Alone("getRefunds").out,
                            Alone("getChargebacks").out,
                            Alone("getDeclines").out, bstate.startDate,
                            bstate.endDate, bstate.tz, bstate.acct)

\* C22: for a fixed upstream the returned bundle is the same for every
\* interleaving of the collectors' calls and responses: each list is what
\* its collector returns when it runs alone over the outcomes of its own
\* calls; and while the call of one collector never returns, every sibling
\* collector finishes its pagination.
C22_InterleavingIndependent ==
    /\ []OwnResponsesOnly
    /\ (mode = "bundle")
          ~> (\A fn \in BundleCollectors(bstate.fn) \ {Stalled} :
                  col[fn].pc = "done")

\* the first call of the stalled collector is still unanswered when every
\* sibling has returned, after interleaved responses and a failure
C22_Witness ==
    /\ mode = "bundle"
    /\ bstate.pc = "running"
    /\ col[Stalled].pc = "await"
    /\ col[Stalled].pages = <<>>
    /\ \A fn \in BundleCollectors(bstate.fn) \ {Stalled} : col[fn].pc = "done"
    /\ \E fn \in BundleCollectors(bstate.fn) : Len(col[fn].out) >= 2
    /\ failures > 0

\* C23: getMultiAccountTransactions processes the accounts one at a time
\* in list order: while it runs, every preceding account of the list has
\* returned or thrown, at most one upstream call is in flight, and every
\* call issued since the preceding account ended acts on the current
\* account.
C23_OneAccountAtATime ==
    (mode = "multi" /\ mstate.pc \notin {"returned", "thrown"}) =>
        LET current == mstate.accountIds[mstate.i] IN
        /\ Len(mstate.outcomes) = mstate.i - 1
        /\ \A j \in DOMAIN mstate.outcomes :
              mstate.outcomes[j].account = mstate.accountIds[j]
        /\ \A fn \in Collectors :
              /\ col[fn].pc # "idle" => col[fn].acct = current
              /\ \A k \in DOMAIN col[fn].calls :
                    col[fn].calls[k].stripeAccount = current
        /\ Cardinality({ fn \in Collectors : Awaiting(col[fn]) })
              = IF mstate.pc = "collect" THEN 1 ELSE 0
        /\ mstate.pc = "retrieve" =>
              \A fn \in Collectors : col[fn] = IdleCollector

\* a later call of the last account is in flight after the account before
\* it threw and the first one returned
C23_Witness ==
    /\ mode = "multi"
    /\ mstate.pc = "collect"
    /\ mstate.i = MaxAccounts
    /\ mstate.outcomes[mstate.i - 1].threw
    /\ ~mstate.outcomes[1].threw
    /\ Len(col[mstate.stage].calls) >= 2
    /\ Awaiting(col[mstate.stage])

\* the calendar days of the requested range
RequestedDays == bstate.startDate .. bstate.endDate

\* C25: the window the per-account fetch passes to its collectors covers
\* the requested range: every record of the upstream created on a calendar
\* day from startDate to endDate (in the requested timezone) lies between
\* startTimestamp and endTimestamp, and when no list call fails the bucket
\* of each day counts the charges of that whole day.
C25_WindowCoversRange ==
    mode = "bundle" =>
        /\ \A fn \in BundleCollectors(bstate.fn) :
              LET recs == Store(bstate.acct, EndpointOf(fn)) IN
              \A k \in DOMAIN recs :
                  (\E d \in RequestedDays :
                       OnLocalDate(recs[k], d, bstate.tz))
                     => /\ col[fn].gte <= recs[k].created
                        /\ recs[k].created <= col[fn].lte
        /\ ( /\ bstate.pc = "returned"
             /\ bstate.fn = "getComprehensiveTransactions"
             /\ failures = 0 )
            => \A j \in DOMAIN bstate.result.transactions :
                  LET day == bstate.result.transactions[j]
                      OnDay(r) == OnLocalDate(r, day.date, bstate.tz)
                  IN  day.charges_count =
                          Len(SelectSeq(Store(bstate.acct, "charges"), OnDay))

\* the pagination calls of a collector, in order
PaginationCalls(c) ==
    LET Paging(call) == call.created IN SelectSeq(c.calls, Paging)

\* the upstream gave the same records to what was asked alike, and gave no
\* record under two different cursors
ConsistentUpstream(c) ==
    \A i, j \in DOMAIN c.pages :
        i < j =>
            IF PaginationCalls(c)[i] = PaginationCalls(c)[j]
            THEN c.pages[i].data = c.pages[j].data
            ELSE \A a \in DOMAIN c.pages[i].data, b \in DOMAIN c.pages[j].data :
                     c.pages[i].data[a] # c.pages[j].data[b]

\* C26: whatever the upstream answers, empty pages with has_more = true
\* included, a collector issues no two pagination calls with the same
\* cursor (the first page, without cursor, is requested once), and against
\* a consistent upstream the list it returns holds no record twice.
C26_NoCursorTwice ==
    \A fn \in Collectors :
        LET c == col[fn] IN
        /\ \A i, j \in DOMAIN PaginationCalls(c) :
              PaginationCalls(c)[i].starting_after
                  = PaginationCalls(c)[j].starting_after => i = j
        /\ ConsistentUpstream(c) => NoRepeat(c.out)

\* C27: in every bucket groupTransactionsByDate returns, totals_count is
\* charges_count + refunds_count + chargebacks_count + declines_count.
C27_TotalsCount ==
    GroupReturned =>
        \A j \in DOMAIN gstate.result :
            LET b == gstate.result[j] IN
            b.totals_count = b.charges_count + b.refunds_count
                               + b.chargebacks_count + b.declines_count

\* a bucket that counts a record of every kind, beside records that fall
\* on no bucket of the range
C27_Witness ==
    /\ GroupReturned
    /\ \E j \in DOMAIN gstate.result :
          LET b == gstate.result[j] IN
          /\ b.charges_count > 0 /\ b.refunds_count > 0
          /\ b.chargebacks_count > 0 /\ b.declines_count > 0
    /\ Len(gstate.result) < MaxDay

----------------------------------------------------------------------------
(* Properties of applyQueryFilters (SpecQuery) *)

\* C30: for a query with ORDER BY created DESC and LIMIT n,
\* applyQueryFilters returns the n latest of the rows that pass the WHERE
\* conditions (all of them when they are fewer), latest first.
C30_LatestRowsFirst ==
    ( /\ qstate.pc = "returned"
      /\ qstate.query.orderBy = "created desc"
      /\ qstate.query.limit > 0 )
      => LET passing == ApplyWhere(qstate.query, qstate.data)
             n == Min(qstate.query.limit, Len(passing))
             result == qstate.result.data
         IN  /\ Len(result) = n
             /\ \A k \in 1..(n - 1) :
                   ParseCreated(result[k].created)
                       > ParseCreated(result[k + 1].created)
             /\ \A k \in DOMAIN result :
                   /\ \E j \in DOMAIN passing :
                         passing[j].charge_id = result[k].charge_id
                   /\ Cardinality({ j \in DOMAIN passing :
                          ParseCreated(passing[j].created)
                              > ParseCreated(result[k].created) }) = k - 1

====
